---- MODULE Spec2Model ----
(***************************************************************************)
(* Model of server.js: the file system tool handlers (path check against   *)
(* os.homedir(), text edits, archive extraction) over an abstract POSIX    *)
(* file system.  Strings are sequences of one-character strings, so that   *)
(* String.prototype.startsWith, path.join, path.resolve and the RegExp     *)
(* calls are computed character by character, as the runtime computes them.*)
(***************************************************************************)
EXTENDS Integers, Sequences, FiniteSets, TLC

VARIABLES
    fs,        \* the file system: absolute path -> entry
    call,      \* the handler call made last (the one in flight, for an archive call)
    result,    \* how that call's promise settled: "pending", "ok" or the error thrown
    ret,       \* the payload of the result
    accesses,  \* the file system calls that call has issued, as <<function, path>>
    job,       \* the archive call in flight: its callbacks' position and streams
    ncalls,    \* the number of calls made so far
    tasks,     \* the calls running side by side: call -> where its handler stands
    proc       \* the command-line process that ran last: its arguments and how it ended

vars == <<fs, call, result, ret, accesses, job, ncalls, tasks, proc>>

(***************************************************************************)
(* Strings                                                                 *)
(***************************************************************************)
SEP == "/"

\* String.prototype.startsWith
StartsWith(s, p) == Len(s) >= Len(p) /\ SubSeq(s, 1, Len(p)) = p

EndsWithSep(s) == Len(s) > 0 /\ s[Len(s)] = SEP

\* index of the first SEP in s, or Len(s) + 1
RECURSIVE FirstSep(_, _)
FirstSep(s, i) ==
    IF i > Len(s) THEN i
    ELSE IF s[i] = SEP THEN i ELSE FirstSep(s, i + 1)

\* s.split("/"): the segments of s between separators (empty ones included)
RECURSIVE Split(_)
Split(s) ==
    LET i == FirstSep(s, 1) IN
    IF i > Len(s) THEN <<s>>
    ELSE <<SubSeq(s, 1, i - 1)>> \o Split(SubSeq(s, i + 1, Len(s)))

\* segs.join("/")
RECURSIVE JoinSegs(_)
JoinSegs(segs) ==
    IF Len(segs) = 0 THEN <<>>
    ELSE IF Len(segs) = 1 THEN segs[1]
    ELSE segs[1] \o <<SEP>> \o JoinSegs(Tail(segs))

DOTDOT == <<".", ".">>
DOT == <<".">>

(***************************************************************************)
(* Node's posix path module, as the handlers call it                       *)
(***************************************************************************)
\* normalizeString(path, allowAboveRoot): "" and "." segments are dropped,
\* ".." removes the segment before it (or stays when above a relative root)
RECURSIVE NormalizeSegs(_, _, _)
NormalizeSegs(segs, acc, allowAboveRoot) ==
    IF Len(segs) = 0 THEN acc
    ELSE LET s == Head(segs) IN
         IF s = <<>> \/ s = DOT THEN NormalizeSegs(Tail(segs), acc, allowAboveRoot)
         ELSE IF s = DOTDOT THEN
              IF Len(acc) > 0 /\ acc[Len(acc)] # DOTDOT
              THEN NormalizeSegs(Tail(segs), SubSeq(acc, 1, Len(acc) - 1), allowAboveRoot)
              ELSE IF allowAboveRoot
                   THEN NormalizeSegs(Tail(segs), Append(acc, s), allowAboveRoot)
                   ELSE NormalizeSegs(Tail(segs), acc, allowAboveRoot)
         ELSE NormalizeSegs(Tail(segs), Append(acc, s), allowAboveRoot)

IsAbsolute(p) == Len(p) > 0 /\ p[1] = SEP

\* path.normalize(p)
PathNormalize(p) ==
    IF Len(p) = 0 THEN DOT
    ELSE LET abs  == IsAbsolute(p)
             body == JoinSegs(NormalizeSegs(Split(p), <<>>, ~abs))
             b1   == IF Len(body) = 0 /\ ~abs THEN DOT ELSE body
             b2   == IF Len(b1) > 0 /\ EndsWithSep(p) THEN b1 \o <<SEP>> ELSE b1
         IN IF abs THEN <<SEP>> \o b2 ELSE b2

\* path.join(a, b)
PathJoin(a, b) ==
    IF Len(a) = 0 /\ Len(b) = 0 THEN DOT
    ELSE IF Len(b) = 0 THEN PathNormalize(a)
    ELSE IF Len(a) = 0 THEN PathNormalize(b)
    ELSE PathNormalize(a \o <<SEP>> \o b)

\* path.resolve(p) for an absolute p (every path the handlers resolve is
\* joined onto the absolute home directory): normalized, no trailing separator
PathResolve(p) == <<SEP>> \o JoinSegs(NormalizeSegs(Split(p), <<>>, FALSE))

\* path.dirname(p) for an absolute p
PathDirname(p) ==
    LET segs == NormalizeSegs(Split(p), <<>>, FALSE) IN
    IF Len(segs) <= 1 THEN <<SEP>>
    ELSE <<SEP>> \o JoinSegs(SubSeq(segs, 1, Len(segs) - 1))

(***************************************************************************)
(* The file system under the handlers: a map from absolute normalized      *)
(* paths to entries.  A directory has kind "dir"; a regular file has kind  *)
(* "file" and its text in data; a zip archive has kind "zip", its entries  *)
(* (name and bytes of each) in entries.                                    *)
(***************************************************************************)
ROOT == <<SEP>>

DirEntry == [kind |-> "dir", data |-> <<>>, entries |-> <<>>]
FileEntry(d) == [kind |-> "file", data |-> d, entries |-> <<>>]
ZipEntry(es) == [kind |-> "zip", data |-> <<"P", "K">>, entries |-> es]

Exists(f, k) == k \in DOMAIN f
IsDir(f, k) == k \in DOMAIN f /\ f[k].kind = "dir"
IsFile(f, k) == k \in DOMAIN f /\ f[k].kind # "dir"

\* k is x or lies beneath x
Under(k, x) == k = x \/ x = ROOT \/ StartsWith(k, x \o <<SEP>>)

\* error of walking to the parent directory of k: "" when it is a directory
RECURSIVE ParentErr(_, _)
ParentErr(f, k) ==
    IF k = ROOT THEN ""
    ELSE LET par == PathDirname(k) IN
         IF par \in DOMAIN f
         THEN IF f[par].kind = "dir" THEN "" ELSE "ENOTDIR"
         ELSE LET e == ParentErr(f, par) IN IF e = "" THEN "ENOENT" ELSE e

Put(f, k, e) == (k :> e) @@ f
Remove(f, ks) == [x \in DOMAIN f \ ks |-> f[x]]

FsOk(f, v) == [err |-> "", fs |-> f, val |-> v]
FsErr(f, e) == [err |-> e, fs |-> f, val |-> <<>>]

\* fs.readFile(t, 'utf8')
FsReadFile(f, t) ==
    LET k == PathResolve(t) pe == ParentErr(f, k) IN
    IF pe # "" THEN FsErr(f, pe)
    ELSE IF ~Exists(f, k) THEN FsErr(f, "ENOENT")
    ELSE IF IsDir(f, k) THEN FsErr(f, "EISDIR")
    ELSE IF EndsWithSep(t) THEN FsErr(f, "ENOTDIR")
    ELSE FsOk(f, f[k].data)

\* fs.writeFile(t, data, {flag}) and fs.appendFile(t, data) (flag "a"):
\* every flag carries O_CREAT; "wx" adds O_EXCL
FsWriteFile(f, t, data, flag) ==
    LET k == PathResolve(t) pe == ParentErr(f, k) IN
    IF pe # "" THEN FsErr(f, pe)
    ELSE IF k # ROOT /\ EndsWithSep(t) THEN FsErr(f, "EISDIR")
    ELSE IF Exists(f, k) THEN
         IF flag = "wx" THEN FsErr(f, "EEXIST")
         ELSE IF IsDir(f, k) THEN FsErr(f, "EISDIR")
         ELSE IF flag = "a" THEN FsOk(Put(f, k, FileEntry(f[k].data \o data)), <<>>)
         ELSE FsOk(Put(f, k, FileEntry(data)), <<>>)
    ELSE FsOk(Put(f, k, FileEntry(data)), <<>>)

\* fs.unlink(t)
FsUnlink(f, t) ==
    LET k == PathResolve(t) pe == ParentErr(f, k) IN
    IF pe # "" THEN FsErr(f, pe)
    ELSE IF ~Exists(f, k) THEN FsErr(f, "ENOENT")
    ELSE IF IsDir(f, k) THEN FsErr(f, "EISDIR")
    ELSE IF EndsWithSep(t) THEN FsErr(f, "ENOTDIR")
    ELSE FsOk(Remove(f, {k}), <<>>)

\* fs.rm(t, {recursive: true}): without force a missing entry is an error
FsRm_noForce(f, t) ==
    LET k == PathResolve(t) pe == ParentErr(f, k) IN
    IF pe # "" THEN FsErr(f, pe)
    ELSE IF ~Exists(f, k) THEN FsErr(f, "ENOENT")
    ELSE IF IsFile(f, k) /\ EndsWithSep(t) THEN FsErr(f, "ENOTDIR")
    ELSE FsOk(Remove(f, {x \in DOMAIN f : Under(x, k)}), <<>>)

\* fs.rm(t, {recursive: true, force: true}): force ignores ENOENT only
FsRm(f, t) ==
    LET k == PathResolve(t) pe == ParentErr(f, k) IN
    IF pe = "ENOTDIR" THEN FsErr(f, pe)
    ELSE IF pe # "" \/ ~Exists(f, k) THEN FsOk(f, <<>>)
    ELSE IF IsFile(f, k) /\ EndsWithSep(t) THEN FsErr(f, "ENOTDIR")
    ELSE FsOk(Remove(f, {x \in DOMAIN f : Under(x, k)}), <<>>)

\* the path x, lying under a, after a has been renamed to b
Rebase(x, a, b) == b \o SubSeq(x, Len(a) + 1, Len(x))

\* fs.rename(a, b)
FsRename(f, a, b) ==
    LET ka == PathResolve(a) kb == PathResolve(b)
        pa == ParentErr(f, ka) pb == ParentErr(f, kb)
        moved == {x \in DOMAIN f : Under(x, ka)}
        kept == Remove(f, moved \cup {kb})
        g == [x \in DOMAIN kept \cup {Rebase(y, ka, kb) : y \in moved} |->
                IF x \in DOMAIN kept THEN kept[x]
                ELSE f[CHOOSE y \in moved : Rebase(y, ka, kb) = x]]
    IN
    IF pa # "" THEN FsErr(f, pa)
    ELSE IF ~Exists(f, ka) THEN FsErr(f, "ENOENT")
    ELSE IF pb # "" THEN FsErr(f, pb)
    ELSE IF IsFile(f, ka) /\ (EndsWithSep(a) \/ EndsWithSep(b)) THEN FsErr(f, "ENOTDIR")
    ELSE IF ka = kb THEN FsOk(f, <<>>)
    ELSE IF Under(kb, ka) THEN FsErr(f, "EINVAL")
    ELSE IF Under(ka, kb) THEN FsErr(f, "ENOTEMPTY")
    ELSE IF Exists(f, kb) /\ IsDir(f, ka) /\ ~IsDir(f, kb) THEN FsErr(f, "ENOTDIR")
    ELSE IF Exists(f, kb) /\ ~IsDir(f, ka) /\ IsDir(f, kb) THEN FsErr(f, "EISDIR")
    ELSE IF IsDir(f, kb) /\ \E x \in DOMAIN f : x # kb /\ Under(x, kb)
         THEN FsErr(f, "ENOTEMPTY")
    ELSE FsOk(g, <<>>)

\* fs.mkdir(t, {recursive: true}) and fse.ensureDir(t): the directory and
\* every missing ancestor
RECURSIVE MkdirP(_, _)
MkdirP(f, k) ==
    IF Exists(f, k) THEN f
    ELSE IF k = ROOT THEN Put(f, k, DirEntry)
    ELSE Put(MkdirP(f, PathDirname(k)), k, DirEntry)

FsMkdirP(f, t) ==
    LET k == PathResolve(t) pe == ParentErr(f, k) IN
    IF pe = "ENOTDIR" THEN FsErr(f, pe)
    ELSE IF IsFile(f, k) THEN FsErr(f, "EEXIST")
    ELSE FsOk(MkdirP(f, k), <<>>)

\* fs.stat(t) and fs.chmod(t, mode): the entry must exist
FsStat(f, t) ==
    LET k == PathResolve(t) pe == ParentErr(f, k) IN
    IF pe # "" THEN FsErr(f, pe)
    ELSE IF ~Exists(f, k) THEN FsErr(f, "ENOENT")
    ELSE IF IsFile(f, k) /\ EndsWithSep(t) THEN FsErr(f, "ENOTDIR")
    ELSE FsOk(f, <<>>)

\* fs.readdir(t): the entry must be a directory
FsReaddir(f, t) ==
    LET k == PathResolve(t) pe == ParentErr(f, k) IN
    IF pe # "" THEN FsErr(f, pe)
    ELSE IF ~Exists(f, k) THEN FsErr(f, "ENOENT")
    ELSE IF ~IsDir(f, k) THEN FsErr(f, "ENOTDIR")
    ELSE FsOk(f, <<>>)

(***************************************************************************)
(* String.prototype.match / replace as editFile and replaceString use them.*)
(* A pattern compiled by new RegExp(p, 'g') is read character by character:*)
(* "." matches any character but a line terminator, any other character of *)
(* the pattern alphabet matches itself.                                    *)
(***************************************************************************)
LineTerminators == {"\n", "\r"}

\* the compiled pattern pat matches content at index i
RegExpMatchAt(content, pat, i) ==
    /\ i + Len(pat) - 1 <= Len(content)
    /\ \A j \in 1..Len(pat) :
          IF pat[j] = "." THEN content[i + j - 1] \notin LineTerminators
          ELSE content[i + j - 1] = pat[j]

\* (content.match(new RegExp(pat, 'g')) || []).length, scanning from i:
\* matches do not overlap, an empty match advances by one character
RECURSIVE MatchCount(_, _, _)
MatchCount(content, pat, i) ==
    IF i > Len(content) + 1 THEN 0
    ELSE IF RegExpMatchAt(content, pat, i)
         THEN 1 + MatchCount(content, pat, i + (IF Len(pat) = 0 THEN 1 ELSE Len(pat)))
         ELSE MatchCount(content, pat, i + 1)

\* GetSubstitution: the replacement text with its $-patterns expanded.
\* "$$" gives "$" and "$&" the matched text; the two patterns that insert the
\* text before and after the match need a quote character, which none of
\* the Replacements contains; "$" before any other character stays.
RECURSIVE GetSubstitution(_, _)
GetSubstitution(repl, matched) ==
    IF Len(repl) = 0 THEN <<>>
    ELSE IF repl[1] = "$" /\ Len(repl) >= 2 /\ repl[2] \in {"$", "&"}
         THEN (IF repl[2] = "$" THEN <<"$">> ELSE matched)
              \o GetSubstitution(SubSeq(repl, 3, Len(repl)), matched)
         ELSE <<repl[1]>> \o GetSubstitution(Tail(repl), matched)

\* content.indexOf(s) + 1, or 0 when s does not occur from index i on
RECURSIVE IndexOf(_, _, _)
IndexOf(content, s, i) ==
    IF i + Len(s) - 1 > Len(content) THEN 0
    ELSE IF SubSeq(content, i, i + Len(s) - 1) = s THEN i
    ELSE IndexOf(content, s, i + 1)

\* content.replace(s, repl) with a string s: the first literal occurrence
StringReplace(content, s, repl) ==
    LET i == IndexOf(content, s, 1) IN
    IF i = 0 THEN content
    ELSE LET before == SubSeq(content, 1, i - 1)
             after  == SubSeq(content, i + Len(s), Len(content))
         IN before \o GetSubstitution(repl, s) \o after

\* content.replace(new RegExp(pat, 'g'), repl), scanning from i
RECURSIVE RegExpReplaceAll(_, _, _, _)
RegExpReplaceAll(content, pat, repl, i) ==
    IF i > Len(content) + 1 THEN <<>>
    ELSE IF RegExpMatchAt(content, pat, i)
         THEN LET n == Len(pat)
                  sub == GetSubstitution(repl, SubSeq(content, i, i + n - 1))
              IN IF n = 0
                 THEN sub \o (IF i <= Len(content) THEN <<content[i]>> ELSE <<>>)
                          \o RegExpReplaceAll(content, pat, repl, i + 1)
                 ELSE sub \o RegExpReplaceAll(content, pat, repl, i + n)
         ELSE (IF i <= Len(content) THEN <<content[i]>> ELSE <<>>)
              \o RegExpReplaceAll(content, pat, repl, i + 1)

(***************************************************************************)
(* The handlers.  Each is the function of server.js of the same name, as   *)
(* an operator from the file system and the arguments to the outcome: how  *)
(* the promise settles, the payload, the file system afterwards and the    *)
(* file system calls issued.                                               *)
(***************************************************************************)
\* os.homedir()
homeDir == <<"/", "h", "/", "u">>

NoRet == [text |-> <<>>, n |-> 0]
Out(res, rt, f, acc) == [result |-> res, ret |-> rt, fs |-> f, accesses |-> acc]
Acc(fn, t) == <<fn, PathResolve(t)>>

\* the Security Check of every handler: path.resolve(target).startsWith(homeDir)
SecurityCheck(target) == StartsWith(PathResolve(target), homeDir)

Restricted(f) == Out("PathRestricted", NoRet, f, {})

\* the outcome of a handler that ends on one file system call r
Settle(r, okRet, acc) == Out(IF r.err = "" THEN "ok" ELSE r.err, okRet, r.fs, acc)

\* the same with a catch block that rewrites the error code `code` to `as`
SettleCatch(r, okRet, acc, code, as) ==
    Out(IF r.err = "" THEN "ok" ELSE IF r.err = code THEN as ELSE r.err, okRet, r.fs, acc)

listFiles(f, directoryPath) ==
    LET targetPath == IF Len(directoryPath) > 0 THEN PathJoin(homeDir, directoryPath)
                      ELSE homeDir
    IN IF ~SecurityCheck(targetPath) THEN Restricted(f)
       ELSE Settle(FsReaddir(f, targetPath), NoRet, {Acc("readdir", targetPath)})

readFile(f, filePath) ==
    LET targetFile == PathJoin(homeDir, filePath) IN
    IF ~SecurityCheck(targetFile) THEN Restricted(f)
    ELSE LET r == FsReadFile(f, targetFile) IN
         Settle(r, [text |-> r.val, n |-> 0], {Acc("readFile", targetFile)})

\* createFile without the exclusive flag
createFile_overwrite(f, filePath, content) ==
    LET targetFile == PathJoin(homeDir, filePath) IN
    IF ~SecurityCheck(targetFile) THEN Restricted(f)
    ELSE SettleCatch(FsWriteFile(f, targetFile, content, "w"), NoRet,
                     {Acc("writeFile", targetFile)}, "EEXIST", "AlreadyExists")

createFile(f, filePath, content) ==
    LET targetFile == PathJoin(homeDir, filePath) IN
    IF ~SecurityCheck(targetFile) THEN Restricted(f)
    ELSE SettleCatch(FsWriteFile(f, targetFile, content, "wx"), NoRet,
                     {Acc("writeFile", targetFile)}, "EEXIST", "AlreadyExists")

\* editFile without the uniqueness test: the first occurrence is replaced
editFile_firstOfMany(f, filePath, oldContent, newContent) ==
    LET targetFile == PathJoin(homeDir, filePath) IN
    IF ~SecurityCheck(targetFile) THEN Restricted(f)
    ELSE LET r == FsReadFile(f, targetFile)
             content == r.val
             occurrences == MatchCount(content, oldContent, 1)
             rd == {Acc("readFile", targetFile)}
         IN IF r.err # "" THEN Out(r.err, NoRet, f, rd)
            ELSE IF occurrences = 0 THEN Out("OldContentNotFound", NoRet, f, rd)
            ELSE Settle(FsWriteFile(f, targetFile,
                                    StringReplace(content, oldContent, newContent), "w"),
                        NoRet, rd \cup {Acc("writeFile", targetFile)})

editFile(f, filePath, oldContent, newContent) ==
    LET targetFile == PathJoin(homeDir, filePath) IN
    IF ~SecurityCheck(targetFile) THEN Restricted(f)
    ELSE LET r == FsReadFile(f, targetFile)
             content == r.val
             occurrences == MatchCount(content, oldContent, 1)
             rd == {Acc("readFile", targetFile)}
         IN IF r.err # "" THEN Out(r.err, NoRet, f, rd)
            ELSE IF occurrences = 0 THEN Out("OldContentNotFound", NoRet, f, rd)
            ELSE IF occurrences > 1
                 THEN Out("NotUnique", [text |-> <<>>, n |-> occurrences], f, rd)
            ELSE Settle(FsWriteFile(f, targetFile,
                                    StringReplace(content, oldContent, newContent), "w"),
                        NoRet, rd \cup {Acc("writeFile", targetFile)})

replaceString(f, filePath, oldString, newString) ==
    LET targetFile == PathJoin(homeDir, filePath) IN
    IF ~SecurityCheck(targetFile) THEN Restricted(f)
    ELSE LET r == FsReadFile(f, targetFile)
             rd == {Acc("readFile", targetFile)}
         IN IF r.err # "" THEN Out(r.err, NoRet, f, rd)
            ELSE Settle(FsWriteFile(f, targetFile,
                                    RegExpReplaceAll(r.val, oldString, newString, 1), "w"),
                        NoRet, rd \cup {Acc("writeFile", targetFile)})

deleteFile(f, filePath) ==
    LET targetFile == PathJoin(homeDir, filePath) IN
    IF ~SecurityCheck(targetFile) THEN Restricted(f)
    ELSE Settle(FsUnlink(f, targetFile), NoRet, {Acc("unlink", targetFile)})

deleteDirectory(f, directoryPath) ==
    LET targetDirectory == PathJoin(homeDir, directoryPath) IN
    IF ~SecurityCheck(targetDirectory) THEN Restricted(f)
    ELSE Settle(FsRm(f, targetDirectory), NoRet, {Acc("rm", targetDirectory)})

\* renameFile, renameDirectory, moveFile and moveDirectory have this one body
renameFile(f, oldArg, newArg) ==
    LET oldPath == PathJoin(homeDir, oldArg)
        newPath == PathJoin(homeDir, newArg)
    IN IF ~SecurityCheck(oldPath) \/ ~SecurityCheck(newPath) THEN Restricted(f)
       ELSE Settle(FsRename(f, oldPath, newPath), NoRet,
                   {Acc("rename", oldPath), Acc("rename", newPath)})

renameDirectory(f, oldArg, newArg) == renameFile(f, oldArg, newArg)
moveFile(f, sourceArg, destinationArg) == renameFile(f, sourceArg, destinationArg)
moveDirectory(f, sourceArg, destinationArg) == renameFile(f, sourceArg, destinationArg)

createDirectory(f, directoryPath) ==
    LET targetDirectory == PathJoin(homeDir, directoryPath) IN
    IF ~SecurityCheck(targetDirectory) THEN Restricted(f)
    ELSE Settle(FsMkdirP(f, targetDirectory), NoRet, {Acc("mkdir", targetDirectory)})

getFileInfo(f, filePath) ==
    LET targetFile == PathJoin(homeDir, filePath) IN
    IF ~SecurityCheck(targetFile) THEN Restricted(f)
    ELSE Settle(FsStat(f, targetFile), NoRet, {Acc("stat", targetFile)})

\* the directory's children, each of which the listing handlers stat
Children(f, k) == {x \in DOMAIN f : x # k /\ PathDirname(x) = k}

getDirectoryInfo(f, directoryPath) ==
    LET targetDirectory == PathJoin(homeDir, directoryPath) IN
    IF ~SecurityCheck(targetDirectory) THEN Restricted(f)
    ELSE LET r == FsReaddir(f, targetDirectory)
             kids == IF r.err = "" THEN Children(f, PathResolve(targetDirectory)) ELSE {}
         IN Settle(r, [text |-> <<>>, n |-> Cardinality(kids)],
                   {Acc("readdir", targetDirectory)} \cup {<<"stat", x>> : x \in kids})

appendToFile(f, filePath, content) ==
    LET targetFile == PathJoin(homeDir, filePath) IN
    IF ~SecurityCheck(targetFile) THEN Restricted(f)
    ELSE SettleCatch(FsWriteFile(f, targetFile, content, "a"), NoRet,
                     {Acc("appendFile", targetFile)}, "ENOENT", "FileNotFound")

prependToFile(f, filePath, content) ==
    LET targetFile == PathJoin(homeDir, filePath) IN
    IF ~SecurityCheck(targetFile) THEN Restricted(f)
    ELSE LET r == FsReadFile(f, targetFile)
             rd == {Acc("readFile", targetFile)}
         IN IF r.err # ""
            THEN Out(IF r.err = "ENOENT" THEN "FileNotFound" ELSE r.err, NoRet, f, rd)
            ELSE SettleCatch(FsWriteFile(f, targetFile, content \o r.val, "w"), NoRet,
                             rd \cup {Acc("writeFile", targetFile)},
                             "ENOENT", "FileNotFound")

searchInFile(f, filePath) ==
    LET targetFile == PathJoin(homeDir, filePath) IN
    IF ~SecurityCheck(targetFile) THEN Restricted(f)
    ELSE SettleCatch(FsReadFile(f, targetFile), NoRet,
                     {Acc("readFile", targetFile)}, "ENOENT", "FileNotFound")

changePermissions(f, filePath) ==
    LET targetPath == PathJoin(homeDir, filePath) IN
    IF ~SecurityCheck(targetPath) THEN Restricted(f)
    ELSE SettleCatch(FsStat(f, targetPath), NoRet,
                     {Acc("chmod", targetPath)}, "ENOENT", "FileNotFound")

\* listRecentFiles and searchFiles read the directory and stat its children
listRecentFiles(f, directoryPath) ==
    LET targetPath == IF Len(directoryPath) > 0 THEN PathJoin(homeDir, directoryPath)
                      ELSE homeDir
    IN IF ~SecurityCheck(targetPath) THEN Restricted(f)
       ELSE LET r == FsReaddir(f, targetPath)
                kids == IF r.err = "" THEN Children(f, PathResolve(targetPath)) ELSE {}
            IN SettleCatch(r, NoRet,
                           {Acc("readdir", targetPath)} \cup {<<"stat", x>> : x \in kids},
                           "ENOENT", "DirectoryNotFound")

searchFiles(f, directoryPath) == listRecentFiles(f, directoryPath)

(***************************************************************************)
(* Bound of the model: the number of calls made in one run.                *)
(***************************************************************************)
MaxCalls == 2

(***************************************************************************)
(* Calls.  A handler without callbacks runs to its result in one step.     *)
(***************************************************************************)
Call(op, p1, p2, content, old, new) ==
    [op |-> op, p1 |-> p1, p2 |-> p2, content |-> content, old |-> old, new |-> new]

NoCall == Call("none", <<>>, <<>>, <<>>, <<>>, <<>>)

\* no call runs beside the one of the process
NoTasks == <<>>

\* no command line has been run
NoProc == [pc |-> "none", toolName |-> "", argv |-> <<>>,
           stdout |-> "", stderr |-> "", message |-> "", exitCode |-> 0]

NoEntry == [fileName |-> <<>>, data |-> <<>>]

\* pc: "idle" (no archive call), "open" (yauzl.open pending), "read" (readEntry
\* called), "mkdir" / "stream" / "parent" / "pipe" (the entry handler's
\* callbacks), "zip" / "zfinal" (the archiver at work), "ended" (resolved),
\* "stalled" (rejected, no callback left), "crashed" (uncaught exception).
\* ws: the write streams not yet closed.
IdleJob == [pc |-> "idle", src |-> <<>>, dest |-> <<>>, entries |-> <<>>, idx |-> 0,
            cur |-> NoEntry, ws |-> {}, uncaught |-> FALSE]

\* a write stream: opened once its file is created, ending once end() was called
Stream(path, data, zip) ==
    [path |-> path, data |-> data, zip |-> zip, opened |-> FALSE, ending |-> FALSE]

\* no callback of an archive call is pending (the process that ran it is over)
Quiescent ==
    \/ job.pc \in {"idle", "crashed"}
    \/ job.pc \in {"ended", "stalled"} /\ \A w \in job.ws : w.opened /\ ~w.ending

Step(c, o) ==
    /\ Quiescent
    /\ call' = c
    /\ result' = o.result
    /\ ret' = o.ret
    /\ fs' = o.fs
    /\ accesses' = o.accesses
    /\ job' = IdleJob

Do_listFiles(P) ==
    \E p \in P : Step(Call("listFiles", p, <<>>, <<>>, <<>>, <<>>), listFiles(fs, p))

Do_readFile(P) ==
    \E p \in P : Step(Call("readFile", p, <<>>, <<>>, <<>>, <<>>), readFile(fs, p))

Do_createFile(P, C) ==
    \E p \in P, c \in C :
        Step(Call("createFile", p, <<>>, c, <<>>, <<>>), createFile(fs, p, c))

Do_editFile(P, O, N) ==
    \E p \in P, o \in O, n \in N :
        Step(Call("editFile", p, <<>>, <<>>, o, n), editFile(fs, p, o, n))

Do_replaceString(P, O, N) ==
    \E p \in P, o \in O, n \in N :
        Step(Call("replaceString", p, <<>>, <<>>, o, n), replaceString(fs, p, o, n))

Do_deleteFile(P) ==
    \E p \in P : Step(Call("deleteFile", p, <<>>, <<>>, <<>>, <<>>), deleteFile(fs, p))

Do_deleteDirectory(P) ==
    \E p \in P :
        Step(Call("deleteDirectory", p, <<>>, <<>>, <<>>, <<>>), deleteDirectory(fs, p))

Do_renameFile(P, Q) ==
    \E p \in P, q \in Q :
        Step(Call("renameFile", p, q, <<>>, <<>>, <<>>), renameFile(fs, p, q))

Do_renameDirectory(P, Q) ==
    \E p \in P, q \in Q :
        Step(Call("renameDirectory", p, q, <<>>, <<>>, <<>>), renameDirectory(fs, p, q))

Do_moveFile(P, Q) ==
    \E p \in P, q \in Q :
        Step(Call("moveFile", p, q, <<>>, <<>>, <<>>), moveFile(fs, p, q))

Do_moveDirectory(P, Q) ==
    \E p \in P, q \in Q :
        Step(Call("moveDirectory", p, q, <<>>, <<>>, <<>>), moveDirectory(fs, p, q))

Do_createDirectory(P) ==
    \E p \in P :
        Step(Call("createDirectory", p, <<>>, <<>>, <<>>, <<>>), createDirectory(fs, p))

Do_getFileInfo(P) ==
    \E p \in P : Step(Call("getFileInfo", p, <<>>, <<>>, <<>>, <<>>), getFileInfo(fs, p))

Do_getDirectoryInfo(P) ==
    \E p \in P :
        Step(Call("getDirectoryInfo", p, <<>>, <<>>, <<>>, <<>>), getDirectoryInfo(fs, p))

Do_appendToFile(P, C) ==
    \E p \in P, c \in C :
        Step(Call("appendToFile", p, <<>>, c, <<>>, <<>>), appendToFile(fs, p, c))

Do_prependToFile(P, C) ==
    \E p \in P, c \in C :
        Step(Call("prependToFile", p, <<>>, c, <<>>, <<>>), prependToFile(fs, p, c))

Do_searchInFile(P) ==
    \E p \in P : Step(Call("searchInFile", p, <<>>, <<>>, <<>>, <<>>), searchInFile(fs, p))

Do_changePermissions(P) ==
    \E p \in P :
        Step(Call("changePermissions", p, <<>>, <<>>, <<>>, <<>>), changePermissions(fs, p))

Do_listRecentFiles(P) ==
    \E p \in P :
        Step(Call("listRecentFiles", p, <<>>, <<>>, <<>>, <<>>), listRecentFiles(fs, p))

Do_searchFiles(P) ==
    \E p \in P : Step(Call("searchFiles", p, <<>>, <<>>, <<>>, <<>>), searchFiles(fs, p))

(***************************************************************************)
(* unzipFile and zipDirectory: the part of the handler that runs before    *)
(* its promise is returned, then one action per callback.                  *)
(***************************************************************************)
JobOut(res, f, acc, j) == [result |-> res, ret |-> NoRet, fs |-> f, accesses |-> acc, job |-> j]

\* unzipFile with the destination created before the paths are validated
unzipFile_ensureDirFirst(f, filePath, destinationArg) ==
    LET sourceFile == PathJoin(homeDir, filePath)
        destinationPath == PathJoin(homeDir, destinationArg)
        r == FsMkdirP(f, destinationPath)
        acc == {Acc("ensureDir", destinationPath)}
    IN IF ~SecurityCheck(sourceFile) \/ ~SecurityCheck(destinationPath)
       THEN JobOut("PathRestricted", r.fs, acc, IdleJob)
       ELSE IF r.err # "" THEN JobOut(r.err, f, acc, IdleJob)
            ELSE JobOut("pending", r.fs, acc,
                        [IdleJob EXCEPT !.pc = "open", !.src = sourceFile,
                                        !.dest = destinationPath])

unzipFile(f, filePath, destinationArg) ==
    LET sourceFile == PathJoin(homeDir, filePath)
        destinationPath == PathJoin(homeDir, destinationArg)
    IN IF ~SecurityCheck(sourceFile) \/ ~SecurityCheck(destinationPath)
       THEN JobOut("PathRestricted", f, {}, IdleJob)
       ELSE LET r == FsMkdirP(f, destinationPath)
                acc == {Acc("ensureDir", destinationPath)}
            IN IF r.err # "" THEN JobOut(r.err, f, acc, IdleJob)
               ELSE JobOut("pending", r.fs, acc,
                           [IdleJob EXCEPT !.pc = "open", !.src = sourceFile,
                                           !.dest = destinationPath])

zipDirectory(f, directoryPath, outputArg) ==
    LET sourceDir == PathJoin(homeDir, directoryPath)
        outputPath == PathJoin(homeDir, outputArg)
    IN IF ~SecurityCheck(sourceDir) \/ ~SecurityCheck(outputPath)
       THEN JobOut("PathRestricted", f, {}, IdleJob)
       ELSE LET r == FsMkdirP(f, PathDirname(outputPath))
                acc == {Acc("ensureDir", PathDirname(outputPath))}
            IN IF r.err # "" THEN JobOut(r.err, f, acc, IdleJob)
               ELSE JobOut("pending", r.fs, acc,
                           [IdleJob EXCEPT !.pc = "zip", !.src = sourceDir,
                                           !.dest = outputPath,
                                           !.ws = {Stream(outputPath, <<>>, TRUE)}])

StartJob(c, o) ==
    /\ Quiescent
    /\ call' = c
    /\ result' = o.result
    /\ ret' = o.ret
    /\ fs' = o.fs
    /\ accesses' = o.accesses
    /\ job' = o.job

Do_unzipFile(P, Q) ==
    \E p \in P, q \in Q :
        StartJob(Call("unzipFile", p, q, <<>>, <<>>, <<>>), unzipFile(fs, p, q))

Do_zipDirectory(P, Q) ==
    \E p \in P, q \in Q :
        StartJob(Call("zipDirectory", p, q, <<>>, <<>>, <<>>), zipDirectory(fs, p, q))

\* reject(err) and resolve(value) settle the promise once; later calls do nothing
Reject(err) == IF result = "pending" THEN err ELSE result
Resolve == IF result = "pending" THEN "ok" ELSE result

\* an exception outside the promise ends the process: no callback runs after it
Crash == [job EXCEPT !.pc = "crashed", !.uncaught = TRUE]

\* the callback of yauzl.open: `if (err) reject(err);` does not return, so
\* zipfile.readEntry() is then called on undefined and throws
OpenCallback ==
    /\ job.pc = "open"
    /\ LET r == FsReadFile(fs, job.src)
           err == IF r.err # "" THEN r.err
                  ELSE IF fs[PathResolve(job.src)].kind # "zip" THEN "NotAZipFile" ELSE ""
       IN /\ accesses' = accesses \cup {Acc("open", job.src)}
          /\ IF err # ""
             THEN result' = Reject(err) /\ job' = Crash
             ELSE /\ result' = result
                  /\ job' = [job EXCEPT !.pc = "read",
                                        !.entries = fs[PathResolve(job.src)].entries]
    /\ UNCHANGED <<fs, call, ret, ncalls, tasks, proc>>

\* yauzl.validateFileName: an absolute name or one with a ".." segment is
\* invalid (null when the name is valid)
ValidFileName(name) ==
    /\ ~IsAbsolute(name)
    /\ \A i \in 1..Len(Split(name)) : Split(name)[i] # DOTDOT

\* the reader refuses an invalid entry name by emitting 'error'; the handler
\* registers no 'error' listener, so the emit throws.  Whether the installed
\* reader validates names is not fixed by server.js (it passes lazyEntries
\* only): ReaderError and OnEntry are both enabled for such a name.
ReaderError ==
    /\ job.pc = "read"
    /\ job.idx < Len(job.entries)
    /\ ~ValidFileName(job.entries[job.idx + 1].fileName)
    /\ job' = Crash
    /\ UNCHANGED <<fs, call, result, ret, accesses, ncalls, tasks, proc>>

\* path.join(destinationPath, entry.fileName)
EntryPath(j) == PathJoin(j.dest, j.cur.fileName)

\* zipfile.on('entry', ...): up to the ensureDir or openReadStream it starts
OnEntry ==
    /\ job.pc = "read"
    /\ job.idx < Len(job.entries)
    /\ LET entry == job.entries[job.idx + 1] IN
       job' = [job EXCEPT !.idx = job.idx + 1, !.cur = entry,
                          !.pc = IF EndsWithSep(entry.fileName) THEN "mkdir" ELSE "stream"]
    /\ UNCHANGED <<fs, call, result, ret, accesses, ncalls, tasks, proc>>

\* zipfile.readEntry() called without waiting for fse.ensureDir(entryPath)
EnsureDirDone_notAwaited ==
    /\ job.pc = "mkdir"
    /\ job' = [job EXCEPT !.pc = "read"]
    /\ UNCHANGED <<fs, call, result, ret, accesses, ncalls, tasks, proc>>

\* fse.ensureDir(entryPath).then(() => zipfile.readEntry()).catch(reject)
EnsureDirDone ==
    /\ job.pc = "mkdir"
    /\ LET r == FsMkdirP(fs, EntryPath(job)) IN
       /\ fs' = r.fs
       /\ accesses' = accesses \cup {Acc("ensureDir", EntryPath(job))}
       /\ IF r.err = ""
          THEN result' = result /\ job' = [job EXCEPT !.pc = "read"]
          ELSE result' = Reject(r.err) /\ job' = [job EXCEPT !.pc = "stalled"]
    /\ UNCHANGED <<call, ret, ncalls, tasks, proc>>

\* the callback of zipfile.openReadStream: registers 'end', starts ensureDir
OpenReadStreamCallback ==
    /\ job.pc = "stream"
    /\ job' = [job EXCEPT !.pc = "parent"]
    /\ UNCHANGED <<fs, call, result, ret, accesses, ncalls, tasks, proc>>

\* fse.ensureDir(path.dirname(entryPath)).then(() => { createWriteStream; pipe })
EnsureParentDone ==
    /\ job.pc = "parent"
    /\ LET r == FsMkdirP(fs, PathDirname(EntryPath(job))) IN
       /\ fs' = r.fs
       /\ accesses' = accesses \cup {Acc("ensureDir", PathDirname(EntryPath(job)))}
       /\ IF r.err = ""
          THEN /\ result' = result
               /\ job' = [job EXCEPT !.pc = "pipe",
                            !.ws = job.ws \cup {Stream(EntryPath(job), job.cur.data, FALSE)}]
          ELSE result' = Reject(r.err) /\ job' = [job EXCEPT !.pc = "stalled"]
    /\ UNCHANGED <<call, ret, ncalls, tasks, proc>>

\* readStream.on('end', () => zipfile.readEntry()); the pipe ends the write stream
ReadStreamEnd ==
    /\ job.pc = "pipe"
    /\ job' = [job EXCEPT !.pc = "read",
                 !.ws = {IF w.path = EntryPath(job) /\ ~w.zip /\ w.data = job.cur.data
                         THEN [w EXCEPT !.ending = TRUE] ELSE w : w \in job.ws}]
    /\ UNCHANGED <<fs, call, result, ret, accesses, ncalls, tasks, proc>>

\* zipfile.on('end', ...): resolve
OnEnd ==
    /\ job.pc = "read"
    /\ job.idx = Len(job.entries)
    /\ result' = Resolve
    /\ job' = [job EXCEPT !.pc = "ended"]
    /\ UNCHANGED <<fs, call, ret, accesses, ncalls, tasks, proc>>

\* fse.createWriteStream(path) opens its file with flag 'w'; a failure is an
\* 'error' event on the stream, which has no listener
StreamOpen ==
    /\ job.pc \notin {"idle", "crashed"}
    /\ \E w \in job.ws :
        /\ ~w.opened
        /\ LET r == FsWriteFile(fs, w.path, <<>>, "w") IN
               /\ fs' = r.fs
           /\ accesses' = accesses \cup {Acc("createWriteStream", w.path)}
           /\ IF r.err = ""
              THEN job' = [job EXCEPT !.ws = (job.ws \ {w}) \cup {[w EXCEPT !.opened = TRUE]}]
              ELSE job' = Crash
    /\ UNCHANGED <<call, result, ret, ncalls, tasks, proc>>

\* the write stream has flushed what was piped into it and closes; the close
\* of the archive output is output.on('close', ...): resolve
StreamClose ==
    /\ job.pc \notin {"idle", "crashed"}
    /\ \E w \in job.ws :
        /\ w.opened /\ w.ending
        /\ fs' = Put(fs, PathResolve(w.path),
                     IF w.zip THEN ZipEntry(job.entries) ELSE FileEntry(w.data))
        /\ accesses' = accesses \cup {Acc("write", w.path)}
        /\ IF w.zip
           THEN result' = Resolve /\ job' = [job EXCEPT !.ws = job.ws \ {w}, !.pc = "ended"]
           ELSE result' = result /\ job' = [job EXCEPT !.ws = job.ws \ {w}]
    /\ UNCHANGED <<call, ret, ncalls, tasks, proc>>

\* the name of x when archive.directory is called without its second
\* argument: the source path is kept as a prefix
EntryName_keepsSourcePath(f, x, src) ==
    SubSeq(x, 2, Len(x)) \o (IF f[x].kind = "dir" THEN <<SEP>> ELSE <<>>)

\* the name of x in an archive of the directory src: relative, "/" after a directory
EntryName(f, x, src) ==
    SubSeq(x, (IF src = ROOT THEN 1 ELSE Len(src) + 1) + 1, Len(x))
        \o (IF f[x].kind = "dir" THEN <<SEP>> ELSE <<>>)

\* the orders in which archive.directory may list the tree: any, a directory
\* before what it holds
RECURSIVE WalkOrders(_)
WalkOrders(S) ==
    IF S = {} THEN {<<>>}
    ELSE UNION {{<<x>> \o s : s \in WalkOrders(S \ {x})} :
                   x \in {y \in S : \A z \in S : z = y \/ ~Under(y, z)}}

\* the archiver's walk with success reported when the archive is finalized,
\* not when the output has closed
ArchiveWalk_resolveOnFinalize ==
    /\ job.pc = "zip"
    /\ LET r == FsReaddir(fs, job.src)
           below == {x \in DOMAIN fs : x # PathResolve(job.src) /\ Under(x, PathResolve(job.src))}
       IN /\ accesses' = accesses \cup {Acc("readdir", job.src)}
          /\ \/ /\ r.err # ""
                /\ result' = Reject(r.err)
                /\ job' = [job EXCEPT !.pc = "stalled"]
             \/ /\ result' = Resolve
                /\ \E order \in (IF r.err # "" THEN {<<>>} ELSE WalkOrders(below)) :
                     job' = [job EXCEPT !.pc = "zfinal",
                               !.entries = [i \in 1..Len(order) |->
                                              [fileName |-> EntryName(fs, order[i], PathResolve(job.src)),
                                               data |-> fs[order[i]].data]],
                               !.ws = {[w EXCEPT !.ending = TRUE] : w \in job.ws}]
    /\ UNCHANGED <<fs, call, ret, ncalls, tasks, proc>>

\* archive.directory(sourceDir, false); archive.finalize(): the archiver reads
\* the tree and ends its output.  zipDirectory does not test that sourceDir
\* exists; when it cannot be read the outcome is the archiver's, which
\* server.js does not fix: its walker emits 'error' (archive.on('error',
\* reject)), or takes the directory for an empty one and ends an archive
\* without entries.
ArchiveWalk ==
    /\ job.pc = "zip"
    /\ LET r == FsReaddir(fs, job.src)
           below == {x \in DOMAIN fs : x # PathResolve(job.src) /\ Under(x, PathResolve(job.src))}
       IN /\ accesses' = accesses \cup {Acc("readdir", job.src)}
          /\ \/ /\ r.err # ""
                /\ result' = Reject(r.err)
                /\ job' = [job EXCEPT !.pc = "stalled"]
             \/ /\ result' = result
                /\ \E order \in (IF r.err # "" THEN {<<>>} ELSE WalkOrders(below)) :
                     job' = [job EXCEPT !.pc = "zfinal",
                               !.entries = [i \in 1..Len(order) |->
                                              [fileName |-> EntryName(fs, order[i], PathResolve(job.src)),
                                               data |-> fs[order[i]].data]],
                               !.ws = {[w EXCEPT !.ending = TRUE] : w \in job.ws}]
    /\ UNCHANGED <<fs, call, ret, ncalls, tasks, proc>>

(***************************************************************************)
(* Spec: every handler, called with the user paths below on a small tree.  *)
(* The home directory is /h/u; /h/u2 is a sibling whose name starts with   *)
(* the home directory's name.                                              *)
(***************************************************************************)
UserPaths ==
    { <<>>,                                       \* ""          the home directory
      <<"f">>,                                    \* "f"         a file
      <<"z">>,                                    \* "z"         an archive
      <<"n">>,                                    \* "n"         nothing there
      <<"f", "/">>,                               \* "f/"
      <<"n", "/", ".", ".", "/", "f">>,           \* "n/../f"    ".." that stays inside
      <<".", ".", "/", "u", "2">>,                \* "../u2"     the sibling directory
      <<".", ".", "/", "u", "2", "/", "s">>,      \* "../u2/s"   a path in the sibling
      <<".", ".", "/", "o">>,                     \* "../o"      outside, no common prefix
      <<"/", "n">>,                               \* "/n"        absolute
      <<"\\", "\\", "e">>,                        \* "\\e"       network share prefix
      <<"C", ":", "\\", "w">> }                   \* "C:\w"      drive letter

\* the paths the handlers with two path arguments are called with
PairPaths ==
    { <<"f">>, <<"n">>,
      <<".", ".", "/", "u", "2", "/", "s">>, <<".", ".", "/", "o">> }

\* what zipDirectory and unzipFile are called on (the home directory, the
\* archive, a path outside) and with what output or destination
ArchiveSources == { <<>>, <<"z">>, <<".", ".", "/", "o">> }
ArchiveTargets == { <<"n">>, <<".", ".", "/", "u", "2", "/", "s">>, <<".", ".", "/", "o">> }

TextA == <<"a">>
TextB == <<"b">>

InitFs ==
    (ROOT :> DirEntry)
    @@ (<<"/", "h">> :> DirEntry)
    @@ (homeDir :> DirEntry)
    @@ (<<"/", "h", "/", "u", "2">> :> DirEntry)
    @@ (<<"/", "h", "/", "u", "/", "f">> :> FileEntry(TextA))
    @@ (<<"/", "h", "/", "u", "/", "z">> :>
          ZipEntry(<<[fileName |-> <<"d", "/">>, data |-> <<>>],
                    [fileName |-> <<"d", "/", "x">>, data |-> TextA],
                    [fileName |-> <<".", ".", "/", "e">>, data |-> TextB]>>))

Init ==
    /\ fs = InitFs
    /\ call = NoCall
    /\ result = "none"
    /\ ret = NoRet
    /\ accesses = {}
    /\ job = IdleJob
    /\ ncalls = 0
    /\ tasks = NoTasks
    /\ proc = NoProc

\* main: a process handles one call; it ends once the result is printed, a
\* rejection has made it exit, or an uncaught exception has killed it
Ready == call.op = "none"

\* a new process is started for the next call
Fresh == Ready /\ ncalls < MaxCalls /\ ncalls' = ncalls + 1 /\ UNCHANGED <<tasks, proc>>

Exit ==
    /\ call.op # "none"
    /\ Quiescent \/ result \notin {"pending", "ok"}
    /\ call' = NoCall
    /\ result' = "none"
    /\ ret' = NoRet
    /\ accesses' = {}
    /\ job' = IdleJob
    /\ UNCHANGED <<fs, ncalls, tasks, proc>>

Callbacks ==
    \/ OpenCallback
    \/ ReaderError
    \/ OnEntry
    \/ EnsureDirDone
    \/ OpenReadStreamCallback
    \/ EnsureParentDone
    \/ ReadStreamEnd
    \/ OnEnd
    \/ StreamOpen
    \/ StreamClose
    \/ ArchiveWalk

Next ==
    \/ Fresh /\ Do_listFiles(UserPaths)
    \/ Fresh /\ Do_readFile(UserPaths)
    \/ Fresh /\ Do_createFile(UserPaths, {TextA})
    \/ Fresh /\ Do_editFile(UserPaths, {TextA}, {TextB})
    \/ Fresh /\ Do_replaceString(UserPaths, {TextB}, {TextA})
    \/ Fresh /\ Do_deleteFile(UserPaths)
    \/ Fresh /\ Do_deleteDirectory(UserPaths)
    \/ Fresh /\ Do_renameFile(PairPaths, PairPaths)
    \/ Fresh /\ Do_renameDirectory(PairPaths, PairPaths)
    \/ Fresh /\ Do_moveFile(PairPaths, PairPaths)
    \/ Fresh /\ Do_moveDirectory(PairPaths, PairPaths)
    \/ Fresh /\ Do_createDirectory(UserPaths)
    \/ Fresh /\ Do_getFileInfo(UserPaths)
    \/ Fresh /\ Do_getDirectoryInfo(UserPaths)
    \/ Fresh /\ Do_appendToFile(UserPaths, {TextB})
    \/ Fresh /\ Do_prependToFile(UserPaths, {TextB})
    \/ Fresh /\ Do_searchInFile(UserPaths)
    \/ Fresh /\ Do_zipDirectory(ArchiveSources, ArchiveTargets)
    \/ Fresh /\ Do_unzipFile(ArchiveSources, ArchiveTargets)
    \/ Fresh /\ Do_changePermissions(UserPaths)
    \/ Fresh /\ Do_listRecentFiles(UserPaths)
    \/ Fresh /\ Do_searchFiles(UserPaths)
    \/ Exit
    \/ Callbacks

Spec == Init /\ [][Next]_vars

(***************************************************************************)
(* SpecEdit: createFile, editFile, replaceString and deleteFile on two     *)
(* files of the home directory, over every text, pattern and replacement   *)
(* of the alphabets below.  createFile may be called again by the caller   *)
(* of the previous call; the other handlers start in a new process.        *)
(***************************************************************************)
MaxContent == 3
MaxPattern == 2

ContentChars == {"a", "."}
PatternChars == {"a", "."}

\* the values of newContent and newString: "", "b", "$$", "$&"
Replacements == {<<>>, <<"b">>, <<"$", "$">>, <<"$", "&">>}

\* the strings over chars of length at most n
Strings(chars, n) == UNION {[1..m -> chars] : m \in 0..n}

\* the values of oldContent and oldString: not empty
Patterns == Strings(PatternChars, MaxPattern) \ {<<>>}

FileF == <<"f">>
FileG == <<"g">>

InitEdit ==
    /\ \E c \in Strings(ContentChars, MaxContent) :
          fs = (ROOT :> DirEntry) @@ (<<"/", "h">> :> DirEntry) @@ (homeDir :> DirEntry)
               @@ (PathJoin(homeDir, FileF) :> FileEntry(c))
    /\ call = NoCall
    /\ result = "none"
    /\ ret = NoRet
    /\ accesses = {}
    /\ job = IdleJob
    /\ ncalls = 0
    /\ tasks = NoTasks
    /\ proc = NoProc

\* no file grows beyond MaxContent characters
Fits == \A k \in DOMAIN fs' : Len(fs'[k].data) <= MaxContent

NextEdit ==
    \/ /\ call.op \in {"none", "createFile"}
       /\ Do_createFile({<<>>, FileF, FileG}, {TextA, TextB})
       /\ UNCHANGED <<ncalls, tasks, proc>>
    \/ Ready /\ Do_deleteFile({FileG}) /\ UNCHANGED <<ncalls, tasks, proc>>
    \/ Ready /\ Do_editFile({FileF}, Patterns, Replacements) /\ Fits /\ UNCHANGED <<ncalls, tasks, proc>>
    \/ Ready /\ Do_replaceString({FileF}, Patterns, Replacements) /\ Fits /\ UNCHANGED <<ncalls, tasks, proc>>
    \/ Exit

SpecEdit == InitEdit /\ [][NextEdit]_vars

(***************************************************************************)
(* Path confinement (C1 - C6)                                              *)
(***************************************************************************)
\* the handlers with two path arguments
PairOps == {"renameFile", "renameDirectory", "moveFile", "moveDirectory",
            "zipDirectory", "unzipFile"}
RenameOps == {"renameFile", "renameDirectory", "moveFile", "moveDirectory"}

\* the user-supplied paths of a call
PathArgs(c) == IF c.op \in PairOps THEN {c.p1, c.p2} ELSE {c.p1}

\* the absolute normalized path a user path stands for
Target(p) == PathResolve(PathJoin(homeDir, p))

\* k is the trusted root or starts with the trusted root followed by a separator
WithinRoot(k) == StartsWith(k \o <<SEP>>, homeDir \o <<SEP>>)

\* p has a parent-directory segment
HasDotDot(p) == \E i \in 1..Len(Split(p)) : Split(p)[i] = DOTDOT

\* p is absolute in some path syntax: leading separator, drive letter, UNC
AbsoluteSyntax(p) ==
    \/ Len(p) >= 1 /\ p[1] \in {"/", "\\"}
    \/ Len(p) >= 2 /\ p[1] \in {"C"} /\ p[2] = ":"

\* p fails the validation the handlers apply
FailsValidation(p) == ~SecurityCheck(PathJoin(homeDir, p))

\* C1: for every operation and every user path it accepts, the path the
\* operation acts on lies within the trusted root (is the root, or starts
\* with the root followed by a separator); a sibling directory whose name
\* merely starts with the root's name is not within it.
C1_ActsWithinRoot ==
    call.op # "none" /\ result # "PathRestricted" =>
        \A a \in accesses :
            a[2] \in {Target(p) : p \in PathArgs(call)} => WithinRoot(a[2])

\* C2: a user path with a ".." segment is rejected with PathRestricted by
\* every operation, also when the path would resolve inside the trusted root.
C2_DotDotRejected ==
    call.op # "none" =>
        \A p \in PathArgs(call) : HasDotDot(p) => result = "PathRestricted"

\* C3: a user path that is absolute (leading separator, drive letter, UNC
\* prefix) is rejected with PathRestricted by every operation.
C3_AbsoluteRejected ==
    call.op # "none" =>
        \A p \in PathArgs(call) : AbsoluteSyntax(p) => result = "PathRestricted"

\* C4: a call one of whose paths fails validation ends with PathRestricted,
\* and a call that ends with PathRestricted has made no file-system access:
\* the file system is as it was before the call.
C4_RestrictedBeforeAccess ==
    [][/\ (call'.op # "none" /\ \E p \in PathArgs(call') : FailsValidation(p))
            => result' = "PathRestricted"
       /\ result' = "PathRestricted" => fs' = fs /\ accesses' = {}]_vars

\* C4 happens: unzipFile of a valid archive into a destination outside the
\* home directory was refused and the destination was not created
C4_Witness ==
    /\ call.op = "unzipFile"
    /\ ~FailsValidation(call.p1)
    /\ FailsValidation(call.p2)
    /\ result = "PathRestricted"
    /\ ~Exists(fs, Target(call.p2))

\* the entry of index i of the archive being extracted resolves outside the
\* destination directory
EntryEscapes(i) ==
    ~Under(PathResolve(PathJoin(job.dest, job.entries[i].fileName)), PathResolve(job.dest))

\* C5: extraction creates nothing outside the destination directory, and an
\* extraction that has come to an entry resolving outside it (such as
\* "../e") has failed with PathRestricted.
C5_ExtractConfined ==
    call.op = "unzipFile" =>
        /\ \A a \in accesses :
              a[1] \in {"createWriteStream", "write"} => Under(a[2], PathResolve(job.dest))
        /\ (job.pc \in {"ended", "stalled", "crashed"}
               /\ \E i \in 1..Len(job.entries) : EntryEscapes(i))
              => result = "PathRestricted"

\* C6: rename and move validate both paths: when either of them lies outside
\* the trusted root the call fails with PathRestricted and nothing is renamed.
C6_BothPathsValidated ==
    call.op \in RenameOps =>
        ((\E p \in PathArgs(call) : ~WithinRoot(Target(p)))
            => result = "PathRestricted" /\ accesses = {})

(***************************************************************************)
(* Exclusive create, unique edit, replace all (C7 - C10)                   *)
(***************************************************************************)
\* s stands in content at index i
LiteralAt(content, s, i) ==
    i + Len(s) - 1 <= Len(content) /\ SubSeq(content, i, i + Len(s) - 1) = s

\* the occurrences of the string s in content from index i on, left to right
\* without overlap
RECURSIVE LiteralCount(_, _, _)
LiteralCount(content, s, i) ==
    IF i > Len(content) + 1 THEN 0
    ELSE IF LiteralAt(content, s, i)
         THEN 1 + LiteralCount(content, s, i + (IF Len(s) = 0 THEN 1 ELSE Len(s)))
         ELSE LiteralCount(content, s, i + 1)

\* content with what stands at index i on a length of n replaced by new
Splice(content, i, n, new) ==
    SubSeq(content, 1, i - 1) \o new \o SubSeq(content, i + n, Len(content))

\* content with its first occurrence of the string s replaced by new
LiteralReplaceFirst(content, s, new) ==
    LET I == {i \in 1..(Len(content) + 1) : LiteralAt(content, s, i)} IN
    IF I = {} THEN content
    ELSE Splice(content, CHOOSE i \in I : \A j \in I : i <= j, Len(s), new)

\* content with its first match of the pattern pat replaced by new
PatternReplaceFirst(content, pat, new) ==
    LET I == {i \in 1..(Len(content) + 1) : RegExpMatchAt(content, pat, i)} IN
    IF I = {} THEN content
    ELSE Splice(content, CHOOSE i \in I : \A j \in I : i <= j, Len(pat), new)

\* content from index i on with every occurrence of s replaced by new; s is
\* read as a string, or as a pattern when asPattern
RECURSIVE ReplaceEvery(_, _, _, _, _)
ReplaceEvery(content, s, new, i, asPattern) ==
    LET rest == IF i <= Len(content) THEN <<content[i]>> ELSE <<>>
        here == IF asPattern THEN RegExpMatchAt(content, s, i) ELSE LiteralAt(content, s, i)
    IN IF i > Len(content) + 1 THEN <<>>
       ELSE IF here
            THEN IF Len(s) = 0
                 THEN new \o rest \o ReplaceEvery(content, s, new, i + 1, asPattern)
                 ELSE new \o ReplaceEvery(content, s, new, i + Len(s), asPattern)
            ELSE rest \o ReplaceEvery(content, s, new, i + 1, asPattern)

\* a call of op starts from a new process on a path that holds a file
CallOnFile(op) == call.op = "none" /\ call'.op = op /\ IsFile(fs, Target(call'.p1))

\* C7: createFile succeeds only when nothing exists at the path, and the file
\* then holds the given content; called again on the path of a call that
\* succeeded, it fails with AlreadyExists and the file keeps the content of
\* the first call.
C7_ExclusiveCreate ==
    [][call'.op = "createFile" =>
         LET k == Target(call'.p1) IN
         /\ result' = "ok" =>
               ~Exists(fs, k) /\ IsFile(fs', k) /\ fs'[k].data = call'.content
         /\ Exists(fs, k) => result' = "AlreadyExists" /\ fs' = fs
         /\ (call.op = "createFile" /\ result = "ok" /\ call'.p1 = call.p1) =>
               result' = "AlreadyExists" /\ fs'[k].data = call.content]_vars

\* C7 happens: a second createFile with another content was refused and the
\* file holds the first content
C7_Witness ==
    /\ call.op = "createFile"
    /\ call.p1 = FileG
    /\ result = "AlreadyExists"
    /\ IsFile(fs, Target(FileG))
    /\ fs[Target(FileG)].data # call.content

\* C8: editFile succeeds exactly when oldContent occurs exactly once in the
\* file, and the file then holds the previous content with that occurrence
\* replaced by newContent; the count and the replacement follow one reading
\* of oldContent, as a string or as a pattern.
C8_EditExactlyOnce ==
    [][CallOnFile("editFile") =>
         LET k == Target(call'.p1)
             content == fs[k].data
             old == call'.old
             new == call'.new
         IN \/ /\ result' = "ok" <=> LiteralCount(content, old, 1) = 1
               /\ result' = "ok" => fs'[k].data = LiteralReplaceFirst(content, old, new)
            \/ /\ result' = "ok" <=> MatchCount(content, old, 1) = 1
               /\ result' = "ok" => fs'[k].data = PatternReplaceFirst(content, old, new)]_vars

\* C9: editFile fails with the not-found error when oldContent has no
\* occurrence and with the not-unique error, which carries the number of
\* occurrences, when it has more than one; neither failure writes the file.
C9_EditFailures ==
    [][CallOnFile("editFile") =>
         LET k == Target(call'.p1)
             n == MatchCount(fs[k].data, call'.old, 1)
             untouched == fs' = fs /\ \A a \in accesses' : a[1] # "writeFile"
         IN /\ n = 0 => result' = "OldContentNotFound" /\ untouched
            /\ n > 1 => result' = "NotUnique" /\ ret'.n = n /\ untouched
            /\ result' \in {"OldContentNotFound", "NotUnique"} => n # 1 /\ untouched]_vars

\* C9 happens: an edit whose oldContent has several occurrences was refused
C9_Witness ==
    /\ call.op = "editFile"
    /\ result = "NotUnique"
    /\ ret.n >= 2
    /\ ret.n = MatchCount(fs[Target(call.p1)].data, call.old, 1)

\* C10: replaceString succeeds and leaves the file with every occurrence of
\* oldString replaced by newString (unchanged when there is none), oldString
\* read as a string or as a pattern.
C10_ReplaceEvery ==
    [][CallOnFile("replaceString") =>
         LET k == Target(call'.p1)
             content == fs[k].data
         IN /\ result' = "ok"
            /\ \/ fs'[k].data = ReplaceEvery(content, call'.old, call'.new, 1, FALSE)
               \/ fs'[k].data = ReplaceEvery(content, call'.old, call'.new, 1, TRUE)]_vars

(***************************************************************************)
(* SpecSave: saveContentToFile.  server.js neither defines nor exports it  *)
(* (module.exports names the 22 handlers above); the tests call it.  It is *)
(* modelled here from the design text: the path is validated, the parent   *)
(* directories are created, the write is exclusive unless overwrite.       *)
(***************************************************************************)
\* the validation of the design text: no absolute path, no ".." segment, and
\* the resolved path within the trusted root
SandboxRejects(p) == AbsoluteSyntax(p) \/ HasDotDot(p) \/ ~WithinRoot(Target(p))

\* saveContentToFile with overwrite ignored: the write always truncates
saveContentToFile_alwaysOverwrite(f, filePath, content, overwrite) ==
    LET targetFile == PathJoin(homeDir, filePath) IN
    IF SandboxRejects(filePath) THEN Restricted(f)
    ELSE LET d == FsMkdirP(f, PathDirname(targetFile))
             acc == {Acc("mkdir", PathDirname(targetFile))}
         IN IF d.err # "" THEN Out(d.err, NoRet, f, acc)
            ELSE SettleCatch(FsWriteFile(d.fs, targetFile, content, "w"),
                             NoRet, acc \cup {Acc("writeFile", targetFile)},
                             "EEXIST", "AlreadyExists")

saveContentToFile(f, filePath, content, overwrite) ==
    LET targetFile == PathJoin(homeDir, filePath) IN
    IF SandboxRejects(filePath) THEN Restricted(f)
    ELSE LET d == FsMkdirP(f, PathDirname(targetFile))
             acc == {Acc("mkdir", PathDirname(targetFile))}
         IN IF d.err # "" THEN Out(d.err, NoRet, f, acc)
            ELSE SettleCatch(FsWriteFile(d.fs, targetFile, content,
                                         IF overwrite THEN "w" ELSE "wx"),
                             NoRet, acc \cup {Acc("writeFile", targetFile)},
                             "EEXIST", "AlreadyExists")

\* a call of saveContentToFile: the call record with the overwrite argument
SaveCall(p, c, o) ==
    [op |-> "saveContentToFile", p1 |-> p, p2 |-> <<>>, content |-> c,
     old |-> <<>>, new |-> <<>>, overwrite |-> o]

Do_saveContentToFile(P, C) ==
    \E p \in P, c \in C, o \in BOOLEAN :
        Step(SaveCall(p, c, o), saveContentToFile(fs, p, c, o))

\* a new file, a file in a directory that does not exist yet, the file f
SavePaths == {FileG, <<"d", "/", "g">>, FileF}

InitSave ==
    /\ fs = (ROOT :> DirEntry) @@ (<<"/", "h">> :> DirEntry) @@ (homeDir :> DirEntry)
            @@ (PathJoin(homeDir, FileF) :> FileEntry(TextA))
    /\ call = NoCall
    /\ result = "none"
    /\ ret = NoRet
    /\ accesses = {}
    /\ job = IdleJob
    /\ ncalls = 0
    /\ tasks = NoTasks
    /\ proc = NoProc

\* the calls of one caller follow each other; files and the directory d are
\* removed between callers
NextSave ==
    \/ Do_saveContentToFile(SavePaths, {TextA, TextB}) /\ UNCHANGED <<ncalls, tasks, proc>>
    \/ Ready /\ Do_deleteFile(SavePaths) /\ UNCHANGED <<ncalls, tasks, proc>>
    \/ Ready /\ Do_deleteDirectory({<<"d">>, <<"f", "/", "n">>}) /\ UNCHANGED <<ncalls, tasks, proc>>
    \/ Exit

SpecSave == InitSave /\ [][NextSave]_vars

\* C11: saveContentToFile without overwrite creates the file when nothing is
\* there and fails with AlreadyExists, the file unchanged, when something
\* is; with overwrite it leaves the file holding the new content; either
\* way missing parent directories are created.  After a refused save a save
\* with overwrite on the same path ends with its own content.
C11_SaveContent ==
    [][call'.op = "saveContentToFile" =>
         LET k == Target(call'.p1) IN
         /\ ~call'.overwrite /\ Exists(fs, k) => result' = "AlreadyExists" /\ fs' = fs
         /\ ~call'.overwrite /\ ~Exists(fs, k) =>
               result' = "ok" /\ IsFile(fs', k) /\ fs'[k].data = call'.content
         /\ call'.overwrite => result' = "ok" /\ IsFile(fs', k) /\ fs'[k].data = call'.content
         /\ result' = "ok" => IsDir(fs', PathDirname(k))
         /\ \A x \in DOMAIN fs : x # k => x \in DOMAIN fs' /\ fs'[x] = fs[x]]_vars

\* C11 happens: after a refused save, a save with overwrite has replaced the
\* content of a file in a directory the first save created
C11_Witness ==
    /\ call.op = "saveContentToFile"
    /\ call.overwrite
    /\ call.p1 = <<"d", "/", "g">>
    /\ result = "ok"
    /\ fs[Target(call.p1)].data = call.content
    /\ call.content = TextB

(***************************************************************************)
(* Errors of the handlers (C12 - C14)                                      *)
(***************************************************************************)
\* the handlers whose target must exist
TargetOps ==
    {"readFile", "editFile", "replaceString", "deleteFile", "renameFile",
     "renameDirectory", "moveFile", "moveDirectory", "getFileInfo",
     "getDirectoryInfo", "listFiles", "appendToFile", "prependToFile",
     "searchInFile", "changePermissions", "listRecentFiles", "searchFiles"}

\* the results that say the target does not exist: the error of the file
\* system as it is, or the message a handler puts in its place
NotFoundResults == {"ENOENT", "FileNotFound", "DirectoryNotFound"}

\* the results that are an error of the file system handed on unchanged
IOErrorResults == {"ENOTDIR", "EISDIR", "EEXIST", "EINVAL", "ENOTEMPTY", "EPERM"}

\* C12: a call of a handler whose target must exist, on a path that passes
\* validation and at which nothing exists, fails with a not-found error; a
\* call on a target that exists never reports it as not found, and when it
\* fails on the file system the result is the error of the file system.
C12_MissingTargetNotFound ==
    [][call.op = "none" /\ call'.op \in TargetOps /\ result' # "PathRestricted" =>
         /\ ~Exists(fs, Target(call'.p1)) => result' \in NotFoundResults
         /\ Exists(fs, Target(call'.p1)) /\ call'.op \notin PairOps =>
               result' \in {"ok", "pending", "OldContentNotFound", "NotUnique"}
                           \cup IOErrorResults]_vars

\* C13: appendToFile on a path at which nothing exists, in a directory that
\* does, fails with a not-found error and creates nothing; on a file it
\* leaves the previous content followed by the given content.
C13_AppendNeedsFile ==
    [][call.op = "none" /\ call'.op = "appendToFile" /\ result' # "PathRestricted" =>
         LET k == Target(call'.p1) IN
         /\ ~Exists(fs, k) /\ IsDir(fs, PathDirname(k)) =>
               result' \in NotFoundResults /\ fs' = fs
         /\ IsFile(fs, k) /\ ~EndsWithSep(call'.p1) =>
               result' = "ok" /\ fs'[k].data = fs[k].data \o call'.content]_vars

(***************************************************************************)
(* SpecZip: zipDirectory of the directory s (a file, a directory, a file   *)
(* in it) or of a missing directory into the archive A, and unzipFile of A *)
(* or of the archive z into the directory E, which does not exist when the *)
(* extraction starts. The archive y holds the file q/x, with no entry for  *)
(* q, and then the file q/x/y, which cannot both be extracted.             *)
(***************************************************************************)
SrcDir == <<"s">>
ZipOut == <<"A">>
DestDir == <<"E">>

InitZip ==
    /\ fs = (Target(SrcDir) :> DirEntry)
            @@ (Target(<<"s", "/", "a">>) :> FileEntry(TextA))
            @@ (Target(<<"s", "/", "d">>) :> DirEntry)
            @@ (Target(<<"s", "/", "d", "/", "x">>) :> FileEntry(TextB))
            @@ (Target(<<"y">>) :>
                   ZipEntry(<<[fileName |-> <<"q", "/", "x">>, data |-> TextA],
                              [fileName |-> <<"q", "/", "x", "/", "y">>, data |-> TextB]>>))
            @@ InitFs
    /\ call = NoCall
    /\ result = "none"
    /\ ret = NoRet
    /\ accesses = {}
    /\ job = IdleJob
    /\ ncalls = 0
    /\ tasks = NoTasks
    /\ proc = NoProc

NextZip ==
    \/ Ready /\ Do_zipDirectory({SrcDir, <<"n">>}, {ZipOut}) /\ UNCHANGED <<ncalls, tasks, proc>>
    \/ Ready /\ ~Exists(fs, Target(DestDir))
             /\ Do_unzipFile({ZipOut, <<"z">>, <<"y">>}, {DestDir}) /\ UNCHANGED <<ncalls, tasks, proc>>
    \/ Ready /\ Do_deleteDirectory({DestDir}) /\ UNCHANGED <<ncalls, tasks, proc>>
    \/ Exit
    \/ Callbacks

SpecZip == InitZip /\ [][NextZip]_vars

\* C14: zipDirectory of a source directory that does not exist fails with a
\* not-found error: it never succeeds.
C14_ZipMissingSource ==
    call.op = "zipDirectory" /\ ~Exists(fs, Target(call.p1)) /\ result # "PathRestricted"
        => result \in {"pending"} \cup NotFoundResults

\* the tree below the directory root: relative name, kind and content of
\* every entry
RelTree(f, root) ==
    {<<SubSeq(x, Len(root) + 1, Len(x)), f[x].kind, f[x].data>> :
        x \in {y \in DOMAIN f : y # root /\ Under(y, root)}}

\* the archive at k holds an entry for every file and directory below root
ArchiveOfTree(f, k, root) ==
    /\ IsFile(f, k)
    /\ f[k].kind = "zip"
    /\ Len(f[k].entries) = Cardinality(RelTree(f, root))
    /\ Len(f[k].entries) > 0

\* the extraction of the call has succeeded and every file it wrote is closed
ExtractionComplete ==
    call.op = "unzipFile" /\ result = "ok" /\ job.pc = "ended" /\ job.ws = {}

\* C15: when the archive A that zipDirectory made of the directory s has
\* been extracted into the new directory E, E holds exactly the files and
\* directories of s, under the same relative names and with the same
\* contents, whatever the order of the entries in A.
C15_RoundTrip ==
    ExtractionComplete /\ call.p1 = ZipOut /\ ArchiveOfTree(fs, Target(ZipOut), Target(SrcDir))
        => RelTree(fs, Target(DestDir)) = RelTree(fs, Target(SrcDir))

\* C15 happens: an archive of s whose first entry is the directory d has been
\* extracted into E
C15_Witness ==
    /\ ExtractionComplete
    /\ call.p1 = ZipOut
    /\ ArchiveOfTree(fs, Target(ZipOut), Target(SrcDir))
    /\ fs[Target(ZipOut)].entries[1].fileName = <<"d", "/">>
    /\ IsFile(fs, Target(<<"E", "/", "d", "/", "x">>))

\* C16: unzipFile has reported success only when the entries have all been
\* read and every file it extracts is written and closed: no write stream
\* of the extraction is open or waiting while the result is success.
C16_SuccessAfterWrites ==
    call.op = "unzipFile" /\ result = "ok" => job.pc = "ended" /\ job.ws = {}

\* C17: unzipFile asks for the next entry only when the file of the current
\* entry is closed: at most one extracted file is open or being written at
\* any moment, and none while the next entry is awaited.
C17_OneEntryAtATime ==
    call.op = "unzipFile" =>
        /\ Cardinality(job.ws) <= 1
        /\ job.pc = "read" => job.ws = {}

\* C18: zipDirectory has reported success only when the archive output is
\* closed and the archive file on disk holds every entry of the walk, with
\* an entry of the same content for each file and directory of the source.
C18_ZipSuccessAfterClose ==
    call.op = "zipDirectory" /\ result = "ok" =>
        LET k == PathResolve(job.dest) IN
        /\ job.ws = {}
        /\ job.pc = "ended"
        /\ IsFile(fs, k)
        /\ fs[k].kind = "zip"
        /\ fs[k].entries = job.entries
        /\ \A x \in DOMAIN fs :
              x # k /\ x # PathResolve(job.src) /\ Under(x, PathResolve(job.src)) =>
                 \E i \in 1..Len(fs[k].entries) :
                    /\ fs[k].entries[i].fileName = EntryName(fs, x, PathResolve(job.src))
                    /\ fs[k].entries[i].data = fs[x].data

\* C18 happens: the archive of s is reported and holds its three entries
C18_Witness ==
    /\ call.op = "zipDirectory"
    /\ call.p1 = SrcDir
    /\ result = "ok"
    /\ Len(fs[Target(ZipOut)].entries) = 3

(***************************************************************************)
(* SpecRace: calls running side by side on the files f and g. A handler is *)
(* an async function: it runs up to its next await, and the file system    *)
(* calls of the other handlers take place in between. fs.writeFile and     *)
(* fs.appendFile open the file, write the bytes and close it, each a file  *)
(* system call of its own.                                                 *)
(***************************************************************************)
MaxTasks == 3

TextAB == <<"a", "b">>
TextBA == <<"b", "a">>

\* the byte of a file that was never written (a hole)
NUL == "0"

RaceCalls ==
    { Call("createFile", FileG, <<>>, TextAB, <<>>, <<>>),
      Call("createFile", FileG, <<>>, TextBA, <<>>, <<>>),
      Call("readFile", FileG, <<>>, <<>>, <<>>, <<>>),
      Call("editFile", FileF, <<>>, <<>>, TextA, TextB),
      Call("replaceString", FileF, <<>>, <<>>, TextA, TextB),
      Call("prependToFile", FileF, <<>>, TextB, <<>>, <<>>),
      Call("appendToFile", FileF, <<>>, TextA, <<>>, <<>>) }

\* a handler in flight: the await it stands at ("read", "open", "write") or
\* "done", its result, the content it has read, the bytes it writes and how
\* many of them are written
Task(pc, res, buf, data, pos) ==
    [pc |-> pc, result |-> res, buf |-> buf, data |-> data, pos |-> pos]

Finished(res, buf) == Task("done", res, buf, <<>>, 0)

\* the handler of the call c run in one piece on the file system f
Handler(f, c) ==
    CASE c.op = "createFile" -> createFile(f, c.p1, c.content)
      [] c.op = "readFile" -> readFile(f, c.p1)
      [] c.op = "editFile" -> editFile(f, c.p1, c.old, c.new)
      [] c.op = "replaceString" -> replaceString(f, c.p1, c.old, c.new)
      [] c.op = "prependToFile" -> prependToFile(f, c.p1, c.content)
      [] c.op = "appendToFile" -> appendToFile(f, c.p1, c.content)

\* the flag of the handler's fs.writeFile or fs.appendFile
WriteFlag(c) ==
    IF c.op = "createFile" THEN "wx" ELSE IF c.op = "appendToFile" THEN "a" ELSE "w"

\* the catch block of the handler
Caught(c, err) ==
    IF c.op = "createFile" /\ err = "EEXIST" THEN "AlreadyExists"
    ELSE IF c.op \in {"appendToFile", "prependToFile"} /\ err = "ENOENT" THEN "FileNotFound"
    ELSE err

\* write(fd, chunk) at the position pos of the file content
WriteAt(content, pos, chunk) ==
    [i \in 1..(IF Len(content) > pos + Len(chunk) THEN Len(content) ELSE pos + Len(chunk)) |->
        IF i > pos /\ i <= pos + Len(chunk) THEN chunk[i - pos]
        ELSE IF i <= Len(content) THEN content[i]
        ELSE NUL]

InitRace ==
    /\ fs = (ROOT :> DirEntry) @@ (<<"/", "h">> :> DirEntry) @@ (homeDir :> DirEntry)
            @@ (PathJoin(homeDir, FileF) :> FileEntry(TextA))
    /\ call = NoCall
    /\ result = "none"
    /\ ret = NoRet
    /\ accesses = {}
    /\ job = IdleJob
    /\ ncalls = 0
    /\ tasks = NoTasks
    /\ proc = NoProc

\* a call is made: the handler runs its Security Check and issues its first
\* file system call
Invoke(c) ==
    /\ c \notin DOMAIN tasks
    /\ Cardinality(DOMAIN tasks) < MaxTasks
    /\ tasks' = (c :> IF ~SecurityCheck(PathJoin(homeDir, c.p1))
                      THEN Finished("PathRestricted", <<>>)
                      ELSE Task(IF c.op \in {"createFile", "appendToFile"} THEN "open" ELSE "read",
                                "pending", <<>>, c.content, 0)) @@ tasks
    /\ UNCHANGED <<fs, call, result, ret, accesses, job, ncalls, proc>>

\* where the handler stands once fs.readFile has returned r, h being the
\* outcome of the handler on the file system as it is read
AfterRead(c, r, h) ==
    IF r.err # "" \/ h.result # "ok" \/ c.op = "readFile"
    THEN Finished(h.result, r.val)
    ELSE Task("open", "pending", r.val, h.fs[Target(c.p1)].data, 0)

\* await fs.readFile(targetFile) returns: the handler computes what it will
\* write from the content just read and issues fs.writeFile
ReadDone(c) ==
    /\ c \in DOMAIN tasks
    /\ tasks[c].pc = "read"
    /\ tasks' = [tasks EXCEPT ![c] =
                   AfterRead(c, FsReadFile(fs, PathJoin(homeDir, c.p1)), Handler(fs, c))]
    /\ UNCHANGED <<fs, call, result, ret, accesses, job, ncalls, proc>>

\* fs.writeFile with the flag of the call also reads the file again: the
\* bytes to write are computed from the content found when opening
WriteOpen_rereads(c) ==
    /\ c \in DOMAIN tasks
    /\ tasks[c].pc = "open"
    /\ LET r == FsWriteFile(fs, PathJoin(homeDir, c.p1), <<>>, WriteFlag(c))
           h == Handler(fs, c)
           data == IF c.op \in {"createFile", "appendToFile"} \/ h.result # "ok"
                   THEN tasks[c].data ELSE h.fs[Target(c.p1)].data
       IN /\ fs' = r.fs
          /\ tasks' = [tasks EXCEPT ![c] =
                         IF r.err # "" THEN Finished(Caught(c, r.err), tasks[c].buf)
                         ELSE IF data = <<>> THEN Finished("ok", tasks[c].buf)
                         ELSE Task("write", "pending", tasks[c].buf, data, 0)]
    /\ UNCHANGED <<call, result, ret, accesses, job, ncalls, proc>>

\* fs.writeFile / fs.appendFile opens the file: "wx" fails on an existing
\* entry, "w" truncates, every flag creates a missing file
WriteOpen(c) ==
    /\ c \in DOMAIN tasks
    /\ tasks[c].pc = "open"
    /\ LET r == FsWriteFile(fs, PathJoin(homeDir, c.p1), <<>>, WriteFlag(c)) IN
          /\ fs' = r.fs
          /\ tasks' = [tasks EXCEPT ![c] =
                         IF r.err # "" THEN Finished(Caught(c, r.err), tasks[c].buf)
                         ELSE IF tasks[c].data = <<>> THEN Finished("ok", tasks[c].buf)
                         ELSE [tasks[c] EXCEPT !.pc = "write"]]
    /\ UNCHANGED <<call, result, ret, accesses, job, ncalls, proc>>

\* the bytes are written in one write or in several; when the last one is
\* written the file is closed and the handler returns
WriteChunk(c) ==
    /\ c \in DOMAIN tasks
    /\ tasks[c].pc = "write"
    /\ \E n \in 1..(Len(tasks[c].data) - tasks[c].pos) :
          LET k == Target(c.p1)
              at == IF WriteFlag(c) = "a" THEN Len(fs[k].data) ELSE tasks[c].pos
              chunk == SubSeq(tasks[c].data, tasks[c].pos + 1, tasks[c].pos + n)
          IN /\ fs' = Put(fs, k, FileEntry(WriteAt(fs[k].data, at, chunk)))
             /\ tasks' = [tasks EXCEPT ![c] =
                            IF tasks[c].pos + n = Len(tasks[c].data)
                            THEN [tasks[c] EXCEPT !.pc = "done", !.result = "ok", !.pos = @ + n]
                            ELSE [tasks[c] EXCEPT !.pos = @ + n]]
    /\ UNCHANGED <<call, result, ret, accesses, job, ncalls, proc>>

NextRace ==
    \/ \E c \in RaceCalls : Invoke(c)
    \/ \E c \in RaceCalls : ReadDone(c)
    \/ \E c \in RaceCalls : WriteOpen(c)
    \/ \E c \in RaceCalls : WriteChunk(c)

SpecRace == InitRace /\ [][NextRace]_vars

InFlight(op) == {c \in DOMAIN tasks : c.op = op}

\* C19: of two createFile calls racing for the missing path g exactly one
\* succeeds and the other fails with AlreadyExists; the file of a creator
\* that has succeeded holds its content; and a readFile call that finds the
\* file reads the whole content of a creator, never a part of it or nothing.
C19_AtomicCreate ==
    /\ \A c, d \in InFlight("createFile") :
          c # d /\ tasks[c].pc = "done" /\ tasks[d].pc = "done" =>
             {tasks[c].result, tasks[d].result} = {"ok", "AlreadyExists"}
    /\ \A c \in InFlight("createFile") :
          tasks[c].result = "ok" => fs[Target(c.p1)].data = c.content
    /\ \A r \in InFlight("readFile") :
          tasks[r].result = "ok" =>
             \E c \in InFlight("createFile") : tasks[r].buf = c.content

\* the first two parts of C19 alone: the exclusive creation
ExclusiveCreateRace ==
    /\ \A c, d \in InFlight("createFile") :
          c # d /\ tasks[c].pc = "done" /\ tasks[d].pc = "done" =>
             {tasks[c].result, tasks[d].result} = {"ok", "AlreadyExists"}
    /\ \A c \in InFlight("createFile") :
          tasks[c].result = "ok" => fs[Target(c.p1)].data = c.content

RMWOps == {"editFile", "replaceString", "prependToFile"}

\* what the call c makes of the content it has read
Rewritten(c, content) ==
    IF c.op = "editFile" THEN LiteralReplaceFirst(content, c.old, c.new)
    ELSE IF c.op = "replaceString" THEN ReplaceEvery(content, c.old, c.new, 1, FALSE)
    ELSE c.content \o content

\* C20: editFile, replaceString and prependToFile write what they computed
\* from the content they read: when the write is opened the file is emptied,
\* whatever another call has written to it since the read, and the bytes
\* then written are the rewriting of the content as it was read.
\* appendToFile reads nothing: each write of it adds to the end of what the
\* file holds at that moment.
C20_ReadModifyWrite ==
    [][\A c \in DOMAIN tasks :
          /\ c.op \in RMWOps /\ tasks[c].pc = "open" /\ tasks'[c].pc # "open" =>
                /\ fs'[Target(c.p1)].data = <<>>
                /\ IF Rewritten(c, tasks[c].buf) = <<>>
                   THEN tasks'[c].pc = "done" /\ tasks'[c].result = "ok"
                   ELSE /\ tasks'[c].pc = "write"
                        /\ tasks'[c].result = "pending"
                        /\ tasks'[c].data = Rewritten(c, tasks[c].buf)
          /\ c.op = "appendToFile" /\ tasks[c].pc = "write" /\ tasks'[c].pos > tasks[c].pos =>
                SubSeq(fs'[Target(c.p1)].data, 1, Len(fs[Target(c.p1)].data))
                   = fs[Target(c.p1)].data]_vars

\* C20 happens: editFile has read "a" and opened the file for writing "b"
\* after appendToFile had made the content "aa": the appended bytes are gone
C20_Witness ==
    \E e \in InFlight("editFile"), a \in InFlight("appendToFile") :
       /\ tasks[e].pc = "write"
       /\ tasks[e].pos = 0
       /\ tasks[e].buf = TextA
       /\ tasks[e].data = TextB
       /\ tasks[a].result = "ok"
       /\ fs[Target(FileF)].data = <<>>

(***************************************************************************)
(* SpecQuery: searchInFile, listRecentFiles and searchFiles with their     *)
(* payloads, on a home directory that holds the file f, possibly the file  *)
(* g, and the directory d. An optional argument is <<>> when it is left    *)
(* out and <<v>> when it is given; an entry carries its modification time. *)
(***************************************************************************)
MaxTime == 2

QueryChars == {"a", "\n"}

\* a || d for an optional number: undefined and 0 are falsy
OrDefault(a, d) == IF a \in {<<>>, <<0>>} THEN d ELSE a

WithContent(o, c) ==
    IF o.result = "ok" THEN [o EXCEPT !.ret = [text |-> <<>>, n |-> 0, content |-> c]] ELSE o

\* content.split(/\r?\n/)
RECURSIVE SplitLines(_)
SplitLines(s) ==
    LET I == {i \in 1..Len(s) : s[i] = "\n"} IN
    IF I = {} THEN <<s>>
    ELSE LET i == CHOOSE x \in I : \A y \in I : x <= y
             e == IF i > 1 /\ s[i - 1] = "\r" THEN i - 2 ELSE i - 1
         IN <<SubSeq(s, 1, e)>> \o SplitLines(SubSeq(s, i + 1, Len(s)))

\* the loop of searchInFile from line i on: regex is compiled with 'g', so
\* regex.test starts at regex.lastIndex, leaves it behind the match it
\* finds and sets it to 0 when it finds none
RECURSIVE matchingLines(_, _, _, _)
matchingLines(lines, pattern, i, lastIndex) ==
    IF i > Len(lines) THEN <<>>
    ELSE LET J == {j \in (lastIndex + 1)..(Len(lines[i]) + 1) :
                      RegExpMatchAt(lines[i], pattern, j)}
         IN IF J = {} THEN matchingLines(lines, pattern, i + 1, 0)
            ELSE <<[lineNumber |-> i, lineContent |-> lines[i]]>>
                 \o matchingLines(lines, pattern, i + 1,
                                  (CHOOSE x \in J : \A y \in J : x <= y) - 1 + Len(pattern))

\* fileStats.sort((a, b) => b.modifiedAt - a.modifiedAt): a stable sort
RECURSIVE SortRecent(_)
SortRecent(s) ==
    IF s = <<>> THEN <<>>
    ELSE LET rest == SortRecent(Tail(s))
             p == Cardinality({i \in 1..Len(rest) : rest[i].modifiedAt > Head(s).modifiedAt})
         IN SubSeq(rest, 1, p) \o <<Head(s)>> \o SubSeq(rest, p + 1, Len(rest))

\* the stat loop of listRecentFiles and searchFiles over the names that
\* readdir returned, in its order
StatFiles(f, files) ==
    LET IsRegular(k) == IsFile(f, k) IN
    [i \in 1..Len(SelectSeq(files, IsRegular)) |->
        LET k == SelectSeq(files, IsRegular)[i] IN
        [name |-> SubSeq(k, Len(PathDirname(k)) + 2, Len(k)),
         size |-> Len(f[k].data), modifiedAt |-> f[k].mtime]]

\* listRecentFiles: limit = args.limit || 10, sort, slice(0, limit)
recentFiles(f, files, limit) ==
    LET sorted == SortRecent(StatFiles(f, files))
        n == OrDefault(limit, <<10>>)[1]
    IN SubSeq(sorted, 1, IF n < Len(sorted) THEN n ELSE Len(sorted))

\* searchFiles: the filters; <<>> as maxSize stands for Infinity
matchingFiles(f, files, fileNamePattern, minArg, maxArg, sinceArg) ==
    LET minSize == OrDefault(minArg, <<0>>)
        maxSize == OrDefault(maxArg, <<>>)
        modifiedSince == OrDefault(sinceArg, <<0>>)
        matches(st) ==
            /\ fileNamePattern = <<>>
               \/ \E j \in 1..(Len(st.name) + 1) : RegExpMatchAt(st.name, fileNamePattern, j)
            /\ ~(st.size < minSize[1] \/ (maxSize # <<>> /\ st.size > maxSize[1]))
            /\ ~(st.modifiedAt < modifiedSince[1])
    IN SelectSeq(StatFiles(f, files), matches)

QueryCall(op, p1, pattern, minSize, maxSize, modifiedSince, limit) ==
    [op |-> op, p1 |-> p1, p2 |-> <<>>, content |-> <<>>, old |-> <<>>, new |-> <<>>,
     pattern |-> pattern, minSize |-> minSize, maxSize |-> maxSize,
     modifiedSince |-> modifiedSince, limit |-> limit]

Timed(e, t) == [kind |-> e.kind, data |-> e.data, entries |-> e.entries, mtime |-> t]

OptNumbers(S) == {<<>>} \cup {<<v>> : v \in S}

InitQuery ==
    /\ \E c \in Strings(QueryChars, MaxContent), cg \in {<<>>, TextA}, t, tg \in 1..MaxTime,
          withG \in BOOLEAN :
          fs = (ROOT :> DirEntry) @@ (<<"/", "h">> :> DirEntry) @@ (homeDir :> DirEntry)
               @@ (Target(FileF) :> Timed(FileEntry(c), t))
               @@ (Target(<<"d">>) :> Timed(DirEntry, MaxTime))
               @@ (IF withG THEN Target(FileG) :> Timed(FileEntry(cg), tg) ELSE <<>>)
    /\ call = NoCall
    /\ result = "none"
    /\ ret = NoRet
    /\ accesses = {}
    /\ job = IdleJob
    /\ ncalls = 0
    /\ tasks = NoTasks
    /\ proc = NoProc

NextQuery ==
    \/ /\ Ready
       /\ \E pattern \in {TextA, <<".">>} :
             Step(QueryCall("searchInFile", FileF, pattern, <<>>, <<>>, <<>>, <<>>),
                  WithContent(searchInFile(fs, FileF),
                              matchingLines(SplitLines(fs[Target(FileF)].data), pattern, 1, 0)))
       /\ UNCHANGED <<ncalls, tasks, proc>>
    \/ /\ Ready
       /\ \E limit \in OptNumbers(0..2), files \in WalkOrders(Children(fs, homeDir)) :
             Step(QueryCall("listRecentFiles", <<>>, <<>>, <<>>, <<>>, <<>>, limit),
                  WithContent(listRecentFiles(fs, <<>>), recentFiles(fs, files, limit)))
       /\ UNCHANGED <<ncalls, tasks, proc>>
    \/ /\ Ready
       /\ \E pattern \in {<<>>, FileF}, minSize, maxSize \in OptNumbers(0..1),
             since \in OptNumbers({0, MaxTime}), files \in WalkOrders(Children(fs, homeDir)) :
             Step(QueryCall("searchFiles", <<>>, pattern, minSize, maxSize, since, <<>>),
                  WithContent(searchFiles(fs, <<>>),
                              matchingFiles(fs, files, pattern, minSize, maxSize, since)))
       /\ UNCHANGED <<ncalls, tasks, proc>>
    \/ Exit

SpecQuery == InitQuery /\ [][NextQuery]_vars

Given(a) == a # <<>>

\* C21: searchFiles returns a regular file of the directory exactly when it
\* passes every filter that was supplied: the name matches fileNamePattern,
\* the size is at least minSize and at most maxSize, the modification time
\* is at least modifiedSince; a supplied bound of 0 is a bound like any other.
C21_SearchConjunctive ==
    call.op = "searchFiles" /\ result = "ok" =>
        \A k \in Children(fs, homeDir) :
           LET name == SubSeq(k, Len(homeDir) + 2, Len(k)) IN
           (\E i \in 1..Len(ret.content) : ret.content[i].name = name)
           <=> /\ IsFile(fs, k)
               /\ Given(call.pattern) =>
                     \E j \in 1..(Len(name) + 1) : RegExpMatchAt(name, call.pattern, j)
               /\ Given(call.minSize) => Len(fs[k].data) >= call.minSize[1]
               /\ Given(call.maxSize) => Len(fs[k].data) <= call.maxSize[1]
               /\ Given(call.modifiedSince) => fs[k].mtime >= call.modifiedSince[1]

\* C22: searchInFile returns, in file order and with their 1-based numbers,
\* exactly the lines of the file in which the pattern has a match.
C22_MatchingLines ==
    call.op = "searchInFile" /\ result = "ok" =>
        LET lines == SplitLines(fs[Target(call.p1)].data)
            Has(i) == \E j \in 1..(Len(lines[i]) + 1) : RegExpMatchAt(lines[i], call.pattern, j)
            hits == SelectSeq([i \in 1..Len(lines) |-> i], Has)
        IN ret.content = [n \in 1..Len(hits) |->
                            [lineNumber |-> hits[n], lineContent |-> lines[hits[n]]]]

\* C23: listRecentFiles returns regular files of the directory only, the
\* most recently modified ones first, as many as the limit allows: the
\* smaller of the limit (10 when none is given) and the number of files.
C23_RecentFiles ==
    call.op = "listRecentFiles" /\ result = "ok" =>
        LET regular == {k \in Children(fs, homeDir) : IsFile(fs, k)}
            lim == IF Given(call.limit) THEN call.limit[1] ELSE 10
            out == ret.content
            Listed(k) == \E i \in 1..Len(out) : out[i].name = SubSeq(k, Len(homeDir) + 2, Len(k))
        IN /\ Len(out) = (IF lim < Cardinality(regular) THEN lim ELSE Cardinality(regular))
           /\ \A i \in 1..Len(out) :
                 \E k \in regular : /\ out[i].name = SubSeq(k, Len(homeDir) + 2, Len(k))
                                    /\ out[i].modifiedAt = fs[k].mtime
           /\ \A i, j \in 1..Len(out) :
                 i < j => out[i].modifiedAt >= out[j].modifiedAt /\ out[i].name # out[j].name
           /\ \A k \in regular, i \in 1..Len(out) :
                 ~Listed(k) => fs[k].mtime <= out[i].modifiedAt

\* a deleteDirectory call is made on a path that passes the Security Check
Deletes == call.op = "none" /\ call'.op = "deleteDirectory" /\ result' # "PathRestricted"

\* C24 as stated: deleteDirectory removes the entry at the path and all that
\* lies beneath it and succeeds, also when nothing exists at the path (the
\* file system is then unchanged); a second call on the path succeeds and
\* changes nothing.
C24_DeleteTwice ==
    [][Deletes =>
          LET k == Target(call'.p1) IN
          /\ result' = "ok"
          /\ fs' = Remove(fs, {x \in DOMAIN fs : Under(x, k)})
          /\ deleteDirectory(fs', call'.p1).result = "ok"
          /\ deleteDirectory(fs', call'.p1).fs = fs']_vars

\* C24 amended: the same, except that on a path that runs through a regular
\* file (below a file, or a file named with a trailing separator) the call
\* fails with ENOTDIR and changes nothing; in every case a second call on
\* the path ends as the first did and changes nothing.
C24_DeleteTwiceUnlessThroughFile ==
    [][Deletes =>
          LET k == Target(call'.p1) IN
          /\ IF \/ ParentErr(fs, k) = "ENOTDIR"
                \/ IsFile(fs, k) /\ EndsWithSep(PathJoin(homeDir, call'.p1))
             THEN result' = "ENOTDIR" /\ fs' = fs
             ELSE result' = "ok" /\ fs' = Remove(fs, {x \in DOMAIN fs : Under(x, k)})
          /\ deleteDirectory(fs', call'.p1).result = result'
          /\ deleteDirectory(fs', call'.p1).fs = fs']_vars

\* C24 happens: deleteDirectory has succeeded on d, which is gone, while the
\* file f beside it is still there
C24_Witness ==
    /\ call.op = "deleteDirectory"
    /\ call.p1 = <<"d">>
    /\ result = "ok"
    /\ ~Exists(fs, Target(<<"d">>))
    /\ Exists(fs, Target(FileF))

\* C25: once unzipFile has rejected, the call writes nothing more: what was
\* extracted before stays as it is and nothing else is created or written.
C25_NoWriteAfterReject ==
    [][call.op = "unzipFile" /\ result \notin {"pending", "ok"} /\ call' = call
          => fs' = fs]_vars

\* the part of C25 about the entries: once unzipFile has rejected no further
\* entry is taken up and nothing that exists is removed or changed; files are
\* written only by the streams that were created before the rejection
NoEntryAfterReject ==
    [][call.op = "unzipFile" /\ result \notin {"pending", "ok"} /\ call' = call
          => /\ job'.idx = job.idx
             /\ job'.ws \subseteq job.ws \cup {[w EXCEPT !.opened = TRUE] : w \in job.ws}
             /\ \A k \in DOMAIN fs : k \in DOMAIN fs' /\ (fs'[k] # fs[k] =>
                    \E w \in job.ws : PathResolve(w.path) = k)]_vars

\* C26: in unzipFile the directory of an entry named with a trailing "/"
\* exists, with its ancestors, when the next entry is requested; the parent
\* directory of a file entry exists when its target file is opened; and a
\* file is written only at join(destinationDir, entry.name), with nothing
\* or with the bytes of that entry.
C26_ExtractSteps ==
    [][call.op = "unzipFile" /\ call' = call =>
          /\ job.pc = "mkdir" /\ job'.pc = "read" =>
                IsDir(fs', PathResolve(EntryPath(job))) /\ ParentErr(fs', PathResolve(EntryPath(job))) = ""
          /\ \A w \in job.ws :
                ~w.opened /\ [w EXCEPT !.opened = TRUE] \in job'.ws =>
                   IsDir(fs, PathDirname(PathResolve(w.path)))
          /\ \A k \in DOMAIN fs' :
                fs'[k].kind = "file" /\ (k \notin DOMAIN fs \/ fs'[k] # fs[k]) =>
                   \E i \in 1..job.idx :
                      /\ k = PathResolve(PathJoin(job.dest, job.entries[i].fileName))
                      /\ fs'[k].data \in {<<>>, job.entries[i].data}]_vars

\* C26 happens: the file q/x of the archive y is written in E, below the
\* directory q that was made for it
C26_Witness ==
    /\ call.op = "unzipFile"
    /\ call.p1 = <<"y">>
    /\ IsDir(fs, Target(<<"E", "/", "q">>))
    /\ IsFile(fs, Target(<<"E", "/", "q", "/", "x">>))
    /\ fs[Target(<<"E", "/", "q", "/", "x">>)].data = TextA

ArchiveOps == {"zipDirectory", "unzipFile"}

\* C27: a zipDirectory or unzipFile call settles: no error is raised outside
\* its promise, and once none of its callbacks is left to run the promise
\* is resolved or rejected.
C27_ArchiveCallSettles ==
    call.op \in ArchiveOps =>
        /\ ~job.uncaught
        /\ (Quiescent => result # "pending")

\* C28: a Compress or Extract call whose input does not exist changes
\* nothing: no step of an unzipFile call on a missing archive, and no step
\* of a zipDirectory call that has failed on a missing source directory,
\* changes the file system.
C28_MissingInputNoEffect ==
    [][(/\ call'.op \in ArchiveOps
        /\ ~Exists(fs, Target(call'.p1))
        /\ (call'.op = "zipDirectory" => result' \notin {"pending", "ok"}))
          => fs' = fs]_vars

\* C29: the home directory itself exists after any sequence of operations.
C29_RootRemains == IsDir(fs, Target(<<>>))

(***************************************************************************)
(* SpecMain: the command line.  `node server.js <toolName> <json>` runs    *)
(* main once: the argument string is parsed, the handler of the tool is    *)
(* awaited, and the process prints and ends.  The argument strings are     *)
(* JSON texts of one path argument, the same texts cut short, bare paths   *)
(* and no argument at all.                                                 *)
(***************************************************************************)
QUOTE == "\""
Quoted(s) == <<QUOTE>> \o s \o <<QUOTE>>

filePathKey == <<"f", "i", "l", "e", "P", "a", "t", "h">>
directoryPathKey == <<"d", "i", "r", "e", "c", "t", "o", "r", "y", "P", "a", "t", "h">>

\* the text of an object with one string member, as the caller writes it
Stringify(key, value) == <<"{">> \o Quoted(key) \o <<":">> \o Quoted(value) \o <<"}">>

\* a text that has lost its last character
CutShort(s) == SubSeq(s, 1, Len(s) - 1)

SyntaxError == [ok |-> FALSE, value |-> <<>>]

\* a string literal of s starting at i: its characters and the index after it
ReadString(s, i) ==
    LET ends == {j \in (i + 1)..Len(s) : s[j] = QUOTE} IN
    IF i > Len(s) \/ s[i] # QUOTE \/ ends = {}
    THEN [ok |-> FALSE, str |-> <<>>, next |-> i]
    ELSE LET j == CHOOSE e \in ends : \A x \in ends : e <= x IN
         [ok |-> TRUE, str |-> SubSeq(s, i + 1, j - 1), next |-> j + 1]

\* the members of an object from index i on, up to the closing brace that
\* must end the text
RECURSIVE ParseMembers(_, _, _)
ParseMembers(s, i, acc) ==
    LET k == ReadString(s, i) IN
    IF ~k.ok \/ k.next > Len(s) \/ s[k.next] # ":" THEN SyntaxError
    ELSE LET v == ReadString(s, k.next + 1)
             obj == (k.str :> v.str) @@ acc
         IN IF ~v.ok \/ v.next > Len(s) THEN SyntaxError
            ELSE IF s[v.next] = "}" /\ v.next = Len(s) THEN [ok |-> TRUE, value |-> obj]
            ELSE IF s[v.next] = "," THEN ParseMembers(s, v.next + 1, obj)
            ELSE SyntaxError

\* JSON.parse of the texts above: an object of string members, or a
\* SyntaxError thrown
JSONParse(s) ==
    IF s = <<"{", "}">> THEN [ok |-> TRUE, value |-> <<>>]
    ELSE IF Len(s) < 2 \/ s[1] # "{" THEN SyntaxError
    ELSE ParseMembers(s, 2, <<>>)

\* process.argv[3] ? JSON.parse(process.argv[3]) : {}
ParseArgv(argv3) == IF argv3 = <<>> THEN [ok |-> TRUE, value |-> <<>>] ELSE JSONParse(argv3)

MainTools == {"listFiles", "readFile", "deleteFile"}
MainPaths == {<<>>, <<"f">>, <<"n">>, <<".", ".", "/", "o">>}

ArgStrings ==
    {<<>>, <<"{", "}">>}
        \cup {Stringify(k, p) : k \in {filePathKey, directoryPathKey}, p \in MainPaths}
        \cup {CutShort(Stringify(filePathKey, p)) : p \in MainPaths}
        \cup {CutShort(Stringify(filePathKey, <<"f">>)) \o <<",">>
                 \o Tail(Stringify(directoryPathKey, <<>>))}
        \cup (MainPaths \ {<<>>})

\* args[key], the empty path standing for undefined where the handler tests
\* the argument before it joins it
Member(args, key) == IF key \in DOMAIN args THEN args[key] ELSE <<>>

\* path.join(homeDir, undefined) throws a TypeError inside the handler
Undefined(f) == Out("TypeError", NoRet, f, {})

\* the switch of main: the handler of toolName, or `Unknown tool` thrown
Dispatch(f, toolName, args) ==
    CASE toolName = "listFiles" -> listFiles(f, Member(args, directoryPathKey))
      [] toolName = "readFile" ->
            IF filePathKey \in DOMAIN args THEN readFile(f, args[filePathKey]) ELSE Undefined(f)
      [] toolName = "deleteFile" ->
            IF filePathKey \in DOMAIN args THEN deleteFile(f, args[filePathKey]) ELSE Undefined(f)
      [] OTHER -> Out("UnknownTool", NoRet, f, {})

Exited(toolName, argv3, out, err, message, code) ==
    [pc |-> "exited", toolName |-> toolName, argv |-> argv3,
     stdout |-> out, stderr |-> err, message |-> message, exitCode |-> code]

\* the try block of main: console.log(JSON.stringify(result)) after the
\* handler, or console.error(JSON.stringify({error})) and process.exit(1)
MainTry(toolName, argv3, args, o) ==
    /\ Step(Call(toolName, Member(args, IF toolName = "listFiles" THEN directoryPathKey
                                        ELSE filePathKey),
                 <<>>, <<>>, <<>>, <<>>), o)
    /\ proc' = IF o.result = "ok" THEN Exited(toolName, argv3, "result", "", "", 0)
               ELSE Exited(toolName, argv3, "", "error", o.result, 1)

\* main: JSON.parse stands before the try block, so its SyntaxError rejects
\* the promise of main(), which nothing handles: the runtime reports it with
\* a stack trace, and ends with code 1 or, before it treated unhandled
\* rejections as fatal, with code 0
main(toolName, argv3) ==
    /\ ncalls < MaxCalls
    /\ ncalls' = ncalls + 1
    /\ UNCHANGED tasks
    /\ IF ~ParseArgv(argv3).ok
       THEN /\ \E code \in {0, 1} :
                  proc' = Exited(toolName, argv3, "", "stack", "SyntaxError", code)
            /\ call' = NoCall
            /\ result' = "none"
            /\ ret' = NoRet
            /\ accesses' = {}
            /\ UNCHANGED <<fs, job>>
       ELSE MainTry(toolName, argv3, ParseArgv(argv3).value,
                    Dispatch(fs, toolName, ParseArgv(argv3).value))

InitMain ==
    /\ fs = InitFs
    /\ call = NoCall
    /\ result = "none"
    /\ ret = NoRet
    /\ accesses = {}
    /\ job = IdleJob
    /\ ncalls = 0
    /\ tasks = NoTasks
    /\ proc = NoProc

NextMain == \E toolName \in MainTools \cup {"bogus"}, argv3 \in ArgStrings : main(toolName, argv3)

SpecMain == InitMain /\ [][NextMain]_vars

\* C30: a run of main ends in one of two ways: the result is printed as JSON
\* and the process ends normally, or a JSON object with the error message is
\* printed and the process exits with code 1; the second for an unknown tool
\* name, which makes no file system call, and for an argument string that
\* is not valid JSON.
C30_MainEndsOneOfTwoWays ==
    proc.pc = "exited" =>
        /\ \/ proc.stdout = "result" /\ proc.stderr = "" /\ proc.exitCode = 0
           \/ proc.stdout = "" /\ proc.stderr = "error" /\ proc.exitCode = 1
        /\ proc.toolName \notin MainTools => proc.stderr = "error" /\ accesses = {}
        /\ ~ParseArgv(proc.argv).ok => proc.stderr = "error"

====
